---- MODULE Spec2Model ----
(***************************************************************************)
(* kubetui: the render loop (App::run / Render::render), the Window input  *)
(* dispatch protocol (ui/window.rs, action.rs, window.rs) and the          *)
(* selectable Table widget (tui-wrapper/src/widget/table.rs).              *)
(*                                                                         *)
(* The specifications share the variables:                                 *)
(*   Spec        the render loop driving the Window (tabs, popups, global  *)
(*               actions) with the Pod tab's table as its stateful widget; *)
(*   SpecTable   the Table widget alone, driven by arbitrary sequences of  *)
(*               its public operations;                                    *)
(*   SpecWindow  the Window alone, driven by arbitrary sequences of its    *)
(*               public operations;                                        *)
(*   SpecThreads the render loop among its threads: the workers (pod_loop, *)
(*               GetYamlWorker::run), the input threads, the request       *)
(*               channel, the panic hook and the joins; SpecThreadsFair is *)
(*               the same under a fair scheduler;                          *)
(*   SpecContents  update_contents under sequences of Kube messages.       *)
(***************************************************************************)
EXTENDS Integers, Sequences, FiniteSets, TLC

\* Option::None of a string-valued option, and of an index-valued one
None == "None"
NoneIdx == 0 - 1

(***************************************************************************)
(* Bounds of the model.                                                    *)
(***************************************************************************)
\* number of tabs of the window (the program builds six, window.rs:205-212)
NumTabs == 2
\* longest item collection a Kube message or set_items call carries
MaxItems == 2
\* capacity of the message channel (the program uses bounded(128))
ChanBound == 1
\* longest item collection given to the Table widget on its own
MaxRows == 3
\* largest step passed to select_next / select_prev
MaxStep == 2

Min(a, b) == IF a < b THEN a ELSE b
Max(a, b) == IF a < b THEN b ELSE a
\* usize::saturating_sub
SatSub(a, b) == IF a < b THEN 0 ELSE a - b

(***************************************************************************)
(* Table widget (tui-wrapper/src/widget/table.rs).                         *)
(* A table value is a record                                               *)
(*   items      Vec<Vec<String>>, here a sequence of rows                  *)
(*   selected   TableState::selected, None or an index                     *)
(*   offset     TableState::offset, first row shown                        *)
(*   row_bounds number of entries of row_bounds (one per item, set_rows)   *)
(*   on_select  whether an on_select callback is registered                *)
(*   status     "ok", or "panic" once an index went out of range           *)
(***************************************************************************)
Row == <<"cell">>
ItemsOfLen(n) == [i \in 1..n |-> Row]

\* #[derivative(Default)] Table: what clear() resets to and build() starts from
TableDefault ==
    [items |-> <<>>, selected |-> NoneIdx, offset |-> 0, row_bounds |-> 0,
     on_select |-> FALSE, status |-> "ok"]

Panicked(t) == [t EXCEPT !.status = "panic"]

\* fn select_next(&mut self, index: usize)
select_next(t, index) ==
    LET i == IF t.selected # NoneIdx
             THEN IF SatSub(Len(t.items), 1) <= t.selected + index
                  THEN SatSub(Len(t.items), 1)
                  ELSE t.selected + index
             ELSE 0
    IN  [t EXCEPT !.selected = i]

\* fn select_prev(&mut self, index: usize)
select_prev(t, index) ==
    LET i == IF t.selected = NoneIdx THEN 0 ELSE t.selected
    IN  [t EXCEPT !.selected = SatSub(i, index)]

\* fn select_first(&mut self)
select_first(t) == [t EXCEPT !.selected = 0]

\* a select_last that moves one row towards the end
select_last_advance(t) == select_next(t, 1)

\* fn select_last(&mut self)
select_last(t) ==
    IF t.items = <<>>
    THEN [t EXCEPT !.selected = 0]
    ELSE [t EXCEPT !.selected = Len(t.items) - 1]

\* set_items that keeps the selection where it was when the items shrink
set_items_unclamped(t, items) ==
    LET len == Len(items)
        sel == IF len = 0 THEN NoneIdx
               ELSE IF t.selected = NoneIdx THEN 0
               ELSE t.selected
    IN  [t EXCEPT !.selected = sel, !.items = items, !.row_bounds = len]

\* set_items that never selects by itself
set_items_no_default(t, items) ==
    LET len == Len(items)
        sel == IF len < Len(t.items) THEN len - 1 ELSE t.selected
    IN  [t EXCEPT !.selected = sel, !.items = items, !.row_bounds = len]

\* fn set_items(&mut self, items: WidgetItem); set_rows leaves one row bound
\* per item
set_items(t, items) ==
    LET len == Len(items)
        sel == IF len = 0 THEN NoneIdx
               ELSE IF len < Len(t.items) THEN len - 1
               ELSE IF t.selected = NoneIdx THEN 0
               ELSE t.selected
    IN  [t EXCEPT !.selected = sel, !.items = items, !.row_bounds = len]

\* fn clear(&mut self): *self = Self::default()
clear(t) == TableDefault

\* fn selected_item(&self): self.items[i] aborts when i is out of range
selected_item_ok(t) == t.selected = NoneIdx \/ t.selected < Len(t.items)

\* fn get_item(&self) -> Option<WidgetItem>
get_item(t) == IF selected_item_ok(t) THEN t ELSE Panicked(t)

\* fn on_select_callback(&self) -> Option<Callback>: Some only with a
\* registered callback and a selected item
on_select_callback(t) == t.on_select /\ t.selected # NoneIdx

\* The result (EventResult) of a widget handler, with the callback it carries
Result(kind, cb) == [kind |-> kind, cb |-> cb]
ResNop == Result("Nop", None)
ResIgnore == Result("Ignore", None)
\* EventResult::Callback(self.on_select_callback())
ResOnSelect(t) ==
    Result("Callback", IF on_select_callback(t) THEN "cb_table_select" ELSE None)

\* Evaluating on_select_callback reads items[selected] when a callback is
\* registered
AfterOnSelect(t) ==
    IF t.on_select /\ ~selected_item_ok(t) THEN Panicked(t) ELSE t

(* fn on_key_event(&mut self, ev: KeyEvent) -> EventResult                 *)
Table_on_key_event(t, code) ==
    CASE code \in {"j", "Down", "PageDown"} ->
             [t |-> select_next(t, 1), r |-> ResNop]
      [] code \in {"k", "Up", "PageUp"} ->
             [t |-> select_prev(t, 1), r |-> ResNop]
      [] code \in {"G", "End"} -> [t |-> select_last(t), r |-> ResNop]
      [] code \in {"g", "Home"} -> [t |-> select_first(t), r |-> ResNop]
      [] code = "Enter" -> [t |-> AfterOnSelect(t), r |-> ResOnSelect(t)]
      [] OTHER -> [t |-> t, r |-> ResIgnore]

(* fn on_mouse_event(&mut self, ev: MouseEvent) -> EventResult             *)
(* hit is the index find() returns over row_bounds[offset..] for the row   *)
(* of the event, NoneIdx when no bound contains it.                        *)
Table_on_mouse_event(t, kind, hit) ==
    IF t.items = <<>> THEN [t |-> t, r |-> ResNop]
    ELSE CASE kind = "DownLeft" ->
                  IF t.offset >= t.row_bounds
                  THEN [t |-> Panicked(t), r |-> ResNop]
                  ELSE LET t1 == IF hit # NoneIdx /\ hit < t.row_bounds - t.offset
                                 THEN [t EXCEPT !.selected = hit + t.offset]
                                 ELSE t
                       IN  [t |-> AfterOnSelect(t1), r |-> ResOnSelect(t1)]
           [] kind = "ScrollDown" -> [t |-> select_next(t, 1), r |-> ResNop]
           [] kind = "ScrollUp" -> [t |-> select_prev(t, 1), r |-> ResNop]
           [] OTHER -> [t |-> t, r |-> ResIgnore]

(* fn render: render_stateful_widget moves the offset so that the selected *)
(* row is shown; nothing is drawn, and the offset kept, without rows.      *)
RenderOffsets(t) ==
    IF t.items = <<>> THEN {t.offset}
    ELSE 0..Min(IF t.selected = NoneIdx THEN 0 ELSE t.selected, Len(t.items) - 1)

(***************************************************************************)
(* Input events and messages.                                              *)
(***************************************************************************)
\* width of a tab title text: "Pod" (the model gives every tab this title)
TitleLen == 3

\* UserEvent::Key(KeyEvent { code, modifiers })
Key(code, mod) == [type |-> "Key", code |-> code, mod |-> mod]
DigitCodes == {"1", "2", "3", "4", "5", "6", "7", "8", "9"}
\* n as usize - b'0' as usize
DigitValue(code) ==
    CASE code = "1" -> 1 [] code = "2" -> 2 [] code = "3" -> 3
      [] code = "4" -> 4 [] code = "5" -> 5 [] code = "6" -> 6
      [] code = "7" -> 7 [] code = "8" -> 8 [] code = "9" -> 9
KeyCodes ==
    {"N", "n", "c", "h", "?", "q", "Esc", "Tab", "BackTab", "Enter",
     "j", "k", "G", "g", "f", "x", "1", "2", "9"}
KeyEvents ==
    {Key(c, "NONE") : c \in KeyCodes}
    \cup {Key("N", "SHIFT"), Key("q", "CONTROL"), Key("n", "CONTROL")}

(* UserEvent::Mouse(MouseEvent { kind, column, row }).  The position is    *)
(* given by what the chunks of the layout make of it: the area of the      *)
(* window it lies in, its column (used in the tab bar), the widget of the  *)
(* active tab and the table row under it, and whether the chunk of the     *)
(* open popup contains it.                                                 *)
Mouse(kind, area, x, widget, hit, in_popup) ==
    [type |-> "Mouse", kind |-> kind, area |-> area, x |-> x,
     widget |-> widget, hit |-> hit, in_popup |-> in_popup]
MouseKinds == {"DownLeft", "Moved", "ScrollDown", "ScrollUp"}
\* format!("{}: {} ", index + 1, title).width()
TabTitleWidth(i) == 1 + 2 + TitleLen + 1
\* the columns the model points at in the tab bar: the column before every
\* title, the first and the last column of every title
Columns ==
    UNION {{(t * (TabTitleWidth(0) + 3)) + d : d \in {0, 1, TabTitleWidth(0)}} :
              t \in 0..(NumTabs - 1)}
\* Inside the chunk of a popup only the kind of the event matters; outside
\* it the event is in the tab bar, over a widget of the tab (the table, with
\* the row it hits, or the second widget, or none) or outside both.
MouseEvents ==
    {Mouse(k, "Widgets", 0, NoneIdx, NoneIdx, TRUE) : k \in MouseKinds}
    \cup {Mouse(k, "Tab", x, NoneIdx, NoneIdx, FALSE) :
        k \in MouseKinds, x \in Columns}
    \cup {Mouse(k, "Widgets", 0, 0, h, FALSE) :
        k \in MouseKinds, h \in {NoneIdx} \cup (0..(MaxItems - 1))}
    \cup {Mouse(k, "Widgets", 0, w, NoneIdx, FALSE) :
        k \in MouseKinds, w \in {NoneIdx, 1}}
    \cup {Mouse(k, "OutSide", 0, NoneIdx, NoneIdx, FALSE) : k \in MouseKinds}
FocusEvents == {[type |-> "FocusLost"], [type |-> "FocusGained"]}
UserEvents == KeyEvents \cup MouseEvents \cup FocusEvents

\* Kube: the resource domains whose handling changes modelled state
KubePod(ok, n) == [kind |-> "Pod", ok |-> ok, n |-> n]
KubeYamlResource(ok, n) == [kind |-> "YamlResource", ok |-> ok, n |-> n]
KubeEvents ==
    {KubePod(ok, n) : ok \in BOOLEAN, n \in 0..MaxItems}
    \cup {KubeYamlResource(ok, n) : ok \in BOOLEAN, n \in 0..1}
    \cup {[kind |-> "Event", ok |-> TRUE, n |-> 0]}

\* enum Message { User, Tick, Kube, Error }
Messages ==
    {[type |-> "User", ev |-> e] : e \in UserEvents}
    \cup {[type |-> "Tick"], [type |-> "Error"]}
    \cup {[type |-> "Kube", k |-> k] : k \in KubeEvents}

(***************************************************************************)
(* Window (src/ui/window.rs).  A window value is a record                  *)
(*   active_tab_index, mouse_over_tab_index, open_popup_id                 *)
(*   active_widget_index   per tab, the index of its focused widget        *)
(*   table                 the table of the Pod tab                        *)
(***************************************************************************)
Tabs == 0..(NumTabs - 1)
\* the popups WindowInit::tabs_popups registers
PopupIds ==
    {"popup_ctx", "popup_single_ns", "popup_ns", "popup_list",
     "popup_yaml_kind", "popup_yaml_name", "popup_yaml_return", "popup_help"}

\* Tab 0 is the Pod tab (table, log), tab 1 the List tab, the others hold
\* one text widget like the Event tab
TabWidgetCount(tab) == IF tab = 0 THEN 2 ELSE 1
WidgetKind(tab, i) == IF tab = 0 /\ i = 0 THEN "table" ELSE "text"

\* self.mouse_over_tab_index = None
clear_mouse_over(w) == [w EXCEPT !.mouse_over_tab_index = NoneIdx]

\* open_popup that leaves an open popup in place
open_popup_keep(w, id) ==
    IF w.open_popup_id # None THEN w ELSE [w EXCEPT !.open_popup_id = id]

open_popup(w, id) == [w EXCEPT !.open_popup_id = id]
close_popup(w) == [w EXCEPT !.open_popup_id = None]
opening_popup(w) == w.open_popup_id # None
\* self.popups.iter_mut().find(|w| w.id() == id)
find_popup(w) == w.open_popup_id \in PopupIds

\* activate_tab_by_index without the look at self.tabs.get(index)
activate_tab_by_index_unchecked(w, index) ==
    [w EXCEPT !.active_tab_index = index]

activate_tab_by_index(w, index) ==
    IF index >= 0 /\ index < NumTabs
    THEN [w EXCEPT !.active_tab_index = index]
    ELSE w
\* view::Window::select_tab, 1-based: `let index = index - 1;` on a usize.
\* With overflow checks (a debug build) 0 - 1 panics; without them (a release
\* build) it wraps to the greatest usize, which is below no tabs.len().  The
\* width is cut to UsizeBits bits; selected_tab_index is the field ui::Window
\* names active_tab_index.
UsizeBits == 30
wrapping_sub(a, b) == (a + 2^UsizeBits - b) % 2^UsizeBits
select_tab(w, index, overflow_checks) ==
    IF index = 0 /\ overflow_checks
    THEN [w |-> w, panicked |-> TRUE]
    ELSE LET i == wrapping_sub(index, 1)
         IN  [w |-> IF i < NumTabs THEN [w EXCEPT !.active_tab_index = i] ELSE w,
              panicked |-> FALSE]
activate_next_tab(w) ==
    [w EXCEPT !.active_tab_index = (w.active_tab_index + 1) % NumTabs]
activate_prev_tab(w) ==
    [w EXCEPT !.active_tab_index = (w.active_tab_index + NumTabs - 1) % NumTabs]

\* Tab::activate_next_widget / activate_prev_widget on the active tab
activate_next_widget(w) ==
    LET tab == w.active_tab_index
    IN  [w EXCEPT !.active_widget_index[tab] = (@ + 1) % TabWidgetCount(tab)]
activate_prev_widget(w) ==
    LET tab == w.active_tab_index
        n == TabWidgetCount(tab)
    IN  [w EXCEPT !.active_widget_index[tab] = (@ + n - 1) % n]

(* What a text or select widget answers to an event: its code is outside   *)
(* the sources, so the answer is an input (choice) of the dispatch, except *)
(* for the actions and on_select callbacks the builders register.          *)
Choices == {"Nop", "Ignore", "Callback"}

\* the on_select callback of each popup widget (context.rs, list.rs, yaml.rs)
PopupOnSelect(id) ==
    CASE id = "popup_ctx" -> "cb_ctx"
      [] id = "popup_single_ns" -> "cb_single_ns"
      [] id = "popup_ns" -> "cb_ns"
      [] id = "popup_list" -> "cb_list"
      [] id = "popup_yaml_kind" -> "cb_yaml_kind"
      [] id = "popup_yaml_name" -> "cb_yaml_name"
      [] OTHER -> None
\* .action(KeyCode::Esc, ..) / .action(KeyCode::Enter, ..) of the popups
PopupAction(id, ev) ==
    IF id = "popup_yaml_name" /\ ev = Key("Esc", "NONE") THEN "act_return_kind"
    ELSE IF id = "popup_yaml_return" /\ ev \in {Key("Enter", "NONE"), Key("Esc", "NONE")}
    THEN "act_return_kind"
    ELSE None

Popup_on_key_event(id, ev, choice) ==
    IF PopupAction(id, ev) # None THEN Result("Callback", PopupAction(id, ev))
    ELSE IF choice = "Callback"
    THEN IF ev.code = "Enter" /\ PopupOnSelect(id) # None
         THEN Result("Callback", PopupOnSelect(id))
         ELSE ResIgnore
    ELSE Result(choice, None)

Popup_on_mouse_event(id, ev, choice) ==
    IF choice = "Callback"
    THEN IF ev.kind = "DownLeft" /\ PopupOnSelect(id) # None
         THEN Result("Callback", PopupOnSelect(id))
         ELSE ResNop
    ELSE Result(choice, None)

\* .action('f', open_subwin) of the List tab's text widget (list.rs:92)
Text_on_key_event(tab, ev, choice) ==
    IF tab = 1 /\ ev = Key("f", "NONE") THEN Result("Callback", "act_open_list")
    ELSE IF choice = "Callback" THEN ResIgnore
    ELSE Result(choice, None)
Text_on_mouse_event(tab, ev, choice) ==
    IF choice = "Callback" THEN ResNop ELSE Result(choice, None)

\* the focused widget of the active tab handles the key
ActiveWidget_on_key_event(w, ev, choice) ==
    LET tab == w.active_tab_index
        i == w.active_widget_index[tab]
    IN  IF WidgetKind(tab, i) = "table"
        THEN LET o == Table_on_key_event(w.table, ev.code)
             IN  [w |-> [w EXCEPT !.table = o.t], r |-> o.r]
        ELSE [w |-> w, r |-> Text_on_key_event(tab, ev, choice)]

\* an on_key_event that moves the focus on Tab whatever the widget answered
Window_on_key_event_eager(w, ev, choice) ==
    LET w1 == clear_mouse_over(w)
    IN  IF opening_popup(w1) /\ find_popup(w1)
        THEN [w |-> w1, r |-> Popup_on_key_event(w1.open_popup_id, ev, choice),
              to |-> "popup"]
        ELSE LET o == ActiveWidget_on_key_event(w1, ev, choice)
             IN  IF ev.code = "Tab"
                 THEN [w |-> activate_next_widget(o.w), r |-> ResNop, to |-> "tab"]
                 ELSE [w |-> o.w, r |-> o.r, to |-> "tab"]

(* pub fn on_key_event(&mut self, ev: KeyEvent) -> EventResult             *)
(* to: who was handed the event ("popup", "tab")                           *)
Window_on_key_event(w, ev, choice) ==
    LET w1 == clear_mouse_over(w)
    IN  IF opening_popup(w1) /\ find_popup(w1)
        THEN [w |-> w1, r |-> Popup_on_key_event(w1.open_popup_id, ev, choice),
              to |-> "popup"]
        ELSE LET o == ActiveWidget_on_key_event(w1, ev, choice)
             IN  IF o.r.kind = "Ignore"
                 THEN CASE ev.code = "Tab" ->
                               [w |-> activate_next_widget(o.w), r |-> ResNop,
                                to |-> "tab"]
                        [] ev.code = "BackTab" ->
                               [w |-> activate_prev_widget(o.w), r |-> ResNop,
                                to |-> "tab"]
                        [] ev.code \in DigitCodes ->
                               [w |-> activate_tab_by_index(o.w, DigitValue(ev.code) - 1),
                                r |-> ResNop, to |-> "tab"]
                        [] OTHER -> [w |-> o.w, r |-> ResIgnore, to |-> "tab"]
                 ELSE [w |-> o.w, r |-> o.r, to |-> "tab"]

\* x of the title chunk of tab i in the tab bar: x starts at chunk.left(),
\* gains 1 before each title and 1 + w + divider_width after it
RECURSIVE TitleLeft(_)
TitleLeft(i) ==
    IF i = 0 THEN 0 + 1
    ELSE (TitleLeft(i - 1) + 1 + TabTitleWidth(i - 1) + 1) + 1
\* title_chunk.contains_point(pos), the row being that of the tab bar
TitleContains(i, x) == TitleLeft(i) <= x /\ x < TitleLeft(i) + TabTitleWidth(i)
\* the first tab of the loop whose title chunk contains the position
TitleHit(x) ==
    IF \E i \in Tabs : TitleContains(i, x)
    THEN CHOOSE i \in Tabs :
             TitleContains(i, x) /\ \A j \in Tabs : TitleContains(j, x) => i <= j
    ELSE NoneIdx

\* fn on_tab_area_mouse_event(&mut self, ev: MouseEvent)
on_tab_area_mouse_event(w, ev) ==
    LET i == TitleHit(ev.x)
    IN  IF i = NoneIdx THEN w
        ELSE CASE ev.kind = "DownLeft" -> activate_tab_by_index(w, i)
               [] ev.kind = "Moved" -> [w EXCEPT !.mouse_over_tab_index = i]
               [] OTHER -> w

\* Tab::on_mouse_event: the widget under the cursor takes the focus on a
\* left click and handles the event
Tab_on_mouse_event(w, ev, choice) ==
    LET tab == w.active_tab_index
    IN  IF ev.widget = NoneIdx \/ ev.widget >= TabWidgetCount(tab)
        THEN [w |-> w, r |-> ResIgnore]
        ELSE LET w1 == IF ev.kind = "DownLeft"
                       THEN [w EXCEPT !.active_widget_index[tab] = ev.widget]
                       ELSE w
             IN  IF WidgetKind(tab, ev.widget) = "table"
                 THEN LET o == Table_on_mouse_event(w1.table, ev.kind, ev.hit)
                      IN  [w |-> [w1 EXCEPT !.table = o.t], r |-> o.r]
                 ELSE [w |-> w1, r |-> Text_on_mouse_event(tab, ev, choice)]

\* the area dispatch of on_mouse_event (area_kind_by_cursor_position)
AreaDispatch(w, ev, choice) ==
    CASE ev.area = "Tab" ->
             [w |-> on_tab_area_mouse_event(w, ev), r |-> ResNop, to |-> "tab_bar"]
      [] ev.area = "Widgets" ->
             LET o == Tab_on_mouse_event(clear_mouse_over(w), ev, choice)
             IN  [w |-> o.w, r |-> o.r, to |-> "tab"]
      [] OTHER -> [w |-> clear_mouse_over(w), r |-> ResIgnore, to |-> "none"]

\* on_mouse_event that closes the popup on a click outside it and then
\* hands the click on to the area under it
Window_on_mouse_event_forward(w, ev, choice) ==
    IF opening_popup(w) /\ find_popup(w)
    THEN IF ev.in_popup
         THEN [w |-> w, r |-> Popup_on_mouse_event(w.open_popup_id, ev, choice),
               to |-> "popup"]
         ELSE IF ev.kind = "DownLeft"
         THEN AreaDispatch(close_popup(w), ev, choice)
         ELSE AreaDispatch(w, ev, choice)
    ELSE AreaDispatch(w, ev, choice)

(* pub fn on_mouse_event(&mut self, ev: MouseEvent) -> EventResult         *)
Window_on_mouse_event(w, ev, choice) ==
    IF opening_popup(w) /\ find_popup(w)
    THEN IF ev.in_popup
         THEN [w |-> w, r |-> Popup_on_mouse_event(w.open_popup_id, ev, choice),
               to |-> "popup"]
         ELSE IF ev.kind = "DownLeft"
         THEN [w |-> close_popup(w), r |-> ResNop, to |-> "none"]
         ELSE AreaDispatch(w, ev, choice)
    ELSE AreaDispatch(w, ev, choice)

\* An event a window in state w can get: the chunk of a popup contains the
\* position of a mouse event only while a popup is open
Possible(w, ev) == (ev.type = "Mouse" /\ ev.in_popup) => opening_popup(w)
\* the answers of the widget the event reaches, when that widget is one
\* whose answer is an input
ChoicesFor(w, ev) ==
    LET tab == w.active_tab_index
        asks ==
            CASE ev.type = "Key" ->
                     \/ opening_popup(w)
                     \/ WidgetKind(tab, w.active_widget_index[tab]) = "text"
              [] ev.type = "Mouse" ->
                     \/ opening_popup(w) /\ ev.in_popup
                     \/ /\ ev.area = "Widgets"
                        /\ ev.widget # NoneIdx
                        /\ ev.widget < TabWidgetCount(tab)
                        /\ WidgetKind(tab, ev.widget) = "text"
              [] OTHER -> FALSE
    IN  IF asks THEN Choices ELSE {"Nop"}

\* pub fn on_event(&mut self, ev: UserEvent) -> EventResult
Window_on_event(w, ev, choice) ==
    CASE ev.type = "Key" -> Window_on_key_event(w, ev, choice)
      [] ev.type = "Mouse" -> Window_on_mouse_event(w, ev, choice)
      [] OTHER -> [w |-> clear_mouse_over(w), r |-> ResNop, to |-> "none"]

(***************************************************************************)
(* Global actions and callbacks (src/window.rs, src/window/*.rs).          *)
(***************************************************************************)
\* the (event, callback) pairs, in the order WindowInit::build registers them
callbacks ==
    << [ev |-> Key("N", "SHIFT"), cb |-> "open_ns"],
       [ev |-> Key("n", "NONE"), cb |-> "open_single_ns"],
       [ev |-> Key("c", "NONE"), cb |-> "open_ctx"],
       [ev |-> Key("h", "NONE"), cb |-> "open_help"],
       [ev |-> Key("?", "NONE"), cb |-> "open_help"],
       [ev |-> Key("q", "NONE"), cb |-> "fn_close"],
       [ev |-> Key("Esc", "NONE"), cb |-> "fn_close"] >>

\* pub fn match_callback(&self, ev: UserEvent): find_map over the table;
\* the index of the callback found, 0 for None
\* a search that compares the key codes only, not the modifiers
RECURSIVE FindFrom_code(_, _)
FindFrom_code(ev, i) ==
    IF i > Len(callbacks) THEN 0
    ELSE IF ev.type = "Key" /\ callbacks[i].ev.code = ev.code THEN i
    ELSE FindFrom_code(ev, i + 1)

RECURSIVE FindFrom(_, _)
FindFrom(ev, i) ==
    IF i > Len(callbacks) THEN 0
    ELSE IF callbacks[i].ev = ev THEN i
    ELSE FindFrom(ev, i + 1)
match_callback(ev) == FindFrom(ev, 1)

\* The closures: each gets the window and returns an EventResult
ResWindow(we) == [kind |-> "Window", cb |-> we]
\* closures whose fn_close asks for CloseWindow with a popup open too
RunCallback_one_stage(cb, w) ==
    IF cb = "fn_close" THEN [w |-> close_popup(w), r |-> ResWindow("CloseWindow")]
    ELSE [w |-> close_popup(w), r |-> ResNop]
RunCallback(cb, w) ==
    CASE cb = "open_ns" -> [w |-> open_popup(w, "popup_ns"), r |-> ResNop]
      [] cb = "open_single_ns" -> [w |-> open_popup(w, "popup_single_ns"), r |-> ResNop]
      [] cb = "open_ctx" -> [w |-> open_popup(w, "popup_ctx"), r |-> ResNop]
      [] cb = "open_help" -> [w |-> open_popup(w, "popup_help"), r |-> ResNop]
      [] cb = "fn_close" ->
             IF opening_popup(w)
             THEN [w |-> close_popup(w), r |-> ResNop]
             ELSE [w |-> w, r |-> ResWindow("CloseWindow")]
      [] cb \in {"cb_ctx", "cb_single_ns", "cb_yaml_kind", "cb_yaml_name"} ->
             [w |-> close_popup(w), r |-> ResNop]
      [] cb = "act_return_kind" -> [w |-> open_popup(w, "popup_yaml_kind"), r |-> ResNop]
      [] cb = "act_open_list" -> [w |-> open_popup(w, "popup_list"), r |-> ResNop]
      [] OTHER -> [w |-> w, r |-> ResNop]

\* exec_to_window_event: runs the callback an EventResult::Callback carries
exec_to_window_event(r, w) ==
    IF r.cb = None THEN [w |-> w, we |-> "Continue"]
    ELSE LET c == RunCallback(r.cb, w)
         IN  [w |-> c.w, we |-> IF c.r.kind = "Window" THEN c.r.cb ELSE "Continue"]

(* pub fn window_action(window, rx) -> WindowEvent, for the message msg    *)
(* that rx.recv() returned.  The result gives the window, the WindowEvent  *)
(* (we), the Kube payload of UpdateContents (k), and for the record of the *)
(* dispatch: to, the result of on_event (res), the index of the matched    *)
(* global action (matched) and the number of times it was called (calls).  *)
NoKube == [kind |-> "None", ok |-> TRUE, n |-> 0]
Outcome(w, we, k, to, res, matched, calls) ==
    [w |-> w, we |-> we, k |-> k, to |-> to, res |-> res,
     matched |-> matched, calls |-> calls]
\* a window_action that closes the window on Message::Error
window_action_error_closes(w, msg, choice) ==
    CASE msg.type = "User" ->
             LET o == Window_on_event(w, msg.ev, choice)
             IN  CASE o.r.kind = "Nop" ->
                          Outcome(o.w, "Continue", NoKube, o.to, "Nop", 0, 0)
                   [] o.r.kind = "Ignore" ->
                          LET i == match_callback(msg.ev)
                          IN  IF i = 0
                              THEN Outcome(o.w, "Continue", NoKube, o.to, "Ignore", 0, 0)
                              ELSE LET c == RunCallback(callbacks[i].cb, o.w)
                                   IN  Outcome(c.w,
                                               IF c.r.kind = "Window" THEN c.r.cb
                                               ELSE "Continue",
                                               NoKube, o.to, "Ignore", i, 1)
                   [] o.r.kind = "Callback" ->
                          LET c == exec_to_window_event(o.r, o.w)
                          IN  Outcome(c.w, c.we, NoKube, o.to, "Callback", 0, 0)
                   [] OTHER -> Outcome(o.w, o.r.cb, NoKube, o.to, "Window", 0, 0)
      [] msg.type = "Kube" ->
             Outcome(w, "UpdateContents", msg.k, "none", "None", 0, 0)
      [] msg.type = "Error" ->
             Outcome(close_popup(w), "CloseWindow", NoKube, "none", "None", 0, 0)
      [] OTHER -> Outcome(w, "Continue", NoKube, "none", "None", 0, 0)
window_action(w, msg, choice) ==
    CASE msg.type = "User" ->
             LET o == Window_on_event(w, msg.ev, choice)
             IN  CASE o.r.kind = "Nop" ->
                          Outcome(o.w, "Continue", NoKube, o.to, "Nop", 0, 0)
                   [] o.r.kind = "Ignore" ->
                          LET i == match_callback(msg.ev)
                          IN  IF i = 0
                              THEN Outcome(o.w, "Continue", NoKube, o.to, "Ignore", 0, 0)
                              ELSE LET c == RunCallback(callbacks[i].cb, o.w)
                                   IN  Outcome(c.w,
                                               IF c.r.kind = "Window" THEN c.r.cb
                                               ELSE "Continue",
                                               NoKube, o.to, "Ignore", i, 1)
                   [] o.r.kind = "Callback" ->
                          LET c == exec_to_window_event(o.r, o.w)
                          IN  Outcome(c.w, c.we, NoKube, o.to, "Callback", 0, 0)
                   [] OTHER -> Outcome(o.w, o.r.cb, NoKube, o.to, "Window", 0, 0)
      [] msg.type = "Kube" ->
             Outcome(w, "UpdateContents", msg.k, "none", "None", 0, 0)
      [] OTHER -> Outcome(w, "Continue", NoKube, "none", "None", 0, 0)

\* an update_contents that unwraps the payload of a pod response
update_contents_unwrap(w, k) ==
    IF k.kind = "Pod" /\ ~k.ok THEN [w EXCEPT !.table = Panicked(@)]
    ELSE IF k.kind = "Pod"
         THEN [w EXCEPT !.table = set_items(@, ItemsOfLen(k.n))]
         ELSE w

\* an update_contents that opens the name popup for an Err as for an Ok
update_contents_open_on_err(w, k) ==
    CASE k.kind = "Pod" ->
             [w EXCEPT !.table =
                 set_items(@, IF k.ok THEN ItemsOfLen(k.n) ELSE ItemsOfLen(1))]
      [] k.kind = "YamlResource" ->
             IF k.ok /\ k.n = 0 THEN open_popup(w, "popup_yaml_return")
             ELSE open_popup(w, "popup_yaml_name")
      [] OTHER -> w

(* pub fn update_contents(window, ev, context, namespace)                  *)
(* Kube::Pod sets the rows of the pod table (an error becomes one ERROR    *)
(* row); YamlResponse::Resource opens popup_yaml_return or popup_yaml_name *)
(* on Ok; the other domains fill widgets whose content is not modelled.    *)
update_contents(w, k) ==
    CASE k.kind = "Pod" ->
             [w EXCEPT !.table =
                 set_items(@, IF k.ok THEN ItemsOfLen(k.n) ELSE ItemsOfLen(1))]
      [] k.kind = "YamlResource" ->
             IF k.ok
             THEN IF k.n = 0 THEN open_popup(w, "popup_yaml_return")
                  ELSE open_popup(w, "popup_yaml_name")
             ELSE w
      [] OTHER -> w

(* The current context and the current namespaces: the two Rc<RefCell<..>>  *)
(* values App::run creates and hands to update_contents and to the header. *)
(* Before any response they hold the values of Context::new() and          *)
(* Namespace::new(), written here as the empty ones; update stores the     *)
(* value the response carries.                                             *)
SharedDefault == [context |-> "", namespace |-> <<>>]
\* Kube::Namespace(NamespaceMessage::Response(NamespaceResponse::Set(res)))
KubeNamespaceSet(ns) ==
    [kind |-> "NamespaceSet", ok |-> TRUE, n |-> 0, ns |-> ns]
\* Kube::RestoreContext { context, namespaces }
KubeRestoreContext(ctx, ns) ==
    [kind |-> "RestoreContext", ok |-> TRUE, n |-> 0, ctx |-> ctx, ns |-> ns]
\* an update_contents that stores a namespace for a pod response too
update_shared_on_pod(s, k) ==
    CASE k.kind \in {"NamespaceSet", "Pod"} -> [s EXCEPT !.namespace = <<"a">>]
      [] k.kind = "RestoreContext" -> [context |-> k.ctx, namespace |-> k.ns]
      [] OTHER -> s
\* an update_contents that stores the listed namespaces of a Get response
update_shared_on_get(s, k) ==
    CASE k.kind = "NamespaceSet" -> [s EXCEPT !.namespace = k.ns]
      [] k.kind = "NamespaceGet" /\ k.ok -> [s EXCEPT !.namespace = k.lines]
      [] k.kind = "RestoreContext" -> [context |-> k.ctx, namespace |-> k.ns]
      [] OTHER -> s
\* update_contents: namespace.update(res) for NamespaceResponse::Set,
\* context.update(ctx) and namespace.update(ns) for RestoreContext
update_shared(s, k) ==
    CASE k.kind = "NamespaceSet" -> [s EXCEPT !.namespace = k.ns]
      [] k.kind = "RestoreContext" -> [context |-> k.ctx, namespace |-> k.ns]
      [] OTHER -> s

\* Window::render -> Tab::render: the widgets of the active tab are drawn,
\* which lets the table adjust its offset (o)
Window_render(w, o) ==
    IF w.active_tab_index = 0 THEN [w EXCEPT !.table.offset = o] ELSE w

\* fn render_popup: the popups drawn above the tabs
render_popup(w) == {id \in PopupIds : w.open_popup_id = id}

(***************************************************************************)
(* State.                                                                  *)
(***************************************************************************)
VARIABLES
    pc,                    \* position of the render loop
    is_terminated,         \* Arc<AtomicBool>, the shutdown flag
    chan,                  \* number of messages waiting in rx_main
    pending,               \* the WindowEvent window_action returned
    active_tab_index,      \* Window fields
    mouse_over_tab_index,
    open_popup_id,
    active_widget_index,
    table,                 \* the table of the Pod tab
    frame,                 \* what the last draw put on the screen
    disp,                  \* record of the dispatch of the last message
    since_draw,            \* messages dequeued since the last draw
    applying,              \* a message is dequeued and not yet fully applied
    op,                    \* the last operation called on the widget or window:
                           \* its name, its argument, and what it found (prev):
                           \* the table's selection and length, or the open popup
    workers,               \* per worker: its position, whether it holds the
                           \* namespace read guard, its panic and its join
    producers,             \* the input threads that still hold their Sender
    req,                   \* number of requests waiting in rx_kube
    blocked_cb,            \* the callback whose tx.send the render thread is in
    hook,                  \* Render::set_panic_hook is installed
    rx_alive,              \* the Receiver of the render loop is not dropped
    contents,              \* the lines of the log widget, of the event widget
                           \* and of the two namespace popups
    hist,                  \* the Kube messages update_contents has applied
    shared                 \* the current context and the current namespaces

wvars == <<active_tab_index, mouse_over_tab_index, open_popup_id,
           active_widget_index, table>>
loopvars == <<pc, is_terminated, chan, pending, disp, since_draw, applying>>
vars == <<pc, is_terminated, chan, pending, active_tab_index,
          mouse_over_tab_index, open_popup_id, active_widget_index, table,
          frame, disp, since_draw, applying, op,
          workers, producers, req, blocked_cb, hook, rx_alive,
          contents, hist, shared>>
\* the contents of the text widgets
cvars == <<contents, hist, shared>>
\* the threads around the render loop, and the text widgets
xvars == <<workers, producers, req, blocked_cb, hook, rx_alive, contents, hist,
           shared>>

\* the Window value of the current state
Win ==
    [active_tab_index |-> active_tab_index,
     mouse_over_tab_index |-> mouse_over_tab_index,
     open_popup_id |-> open_popup_id,
     active_widget_index |-> active_widget_index,
     table |-> table]
SetWin(w) ==
    /\ active_tab_index' = w.active_tab_index
    /\ mouse_over_tab_index' = w.mouse_over_tab_index
    /\ open_popup_id' = w.open_popup_id
    /\ active_widget_index' = w.active_widget_index
    /\ table' = w.table

NoEvent == [type |-> "None"]
NoPending == [we |-> "None", k |-> NoKube]
NoDisp ==
    [msg |-> "None", ev |-> NoEvent, to |-> "none",
     res |-> "None", matched |-> 0, calls |-> 0]
NoFrame == [tab |-> NoneIdx, popups |-> {}]
NoOp == [name |-> "none", arg |-> 0, prev |-> None]

\* TableBuilder::build: the default table, then set_items(self.items)
TableBuild(n, on_select) ==
    set_items([TableDefault EXCEPT !.on_select = on_select], ItemsOfLen(n))

\* WindowBuilder::build: ..Default::default() for the indices and the popup
InitWindow ==
    /\ active_tab_index = 0
    /\ mouse_over_tab_index = NoneIdx
    /\ open_popup_id = None
    /\ active_widget_index = [t \in Tabs |-> 0]
InitLoop ==
    /\ pc = "loop"
    /\ is_terminated = FALSE
    /\ chan = 0
    /\ pending = NoPending
    /\ disp = NoDisp
    /\ since_draw = 0
    /\ applying = FALSE
    /\ frame = NoFrame
    /\ op = NoOp

\* the threads before any of them has run; the workers start at the top of
\* their loops.  pod_loop stands for event_loop as well: the two have the
\* same body (tick, read guard, fetch, send().unwrap()) in a bare `loop`
Workers == {"pod_loop", "get_yaml"}
Producers == {"read_key", "tick"}
\* `while !self.is_terminated.load(..)` (GetYamlWorker::run) against `loop`
PollsFlag(w) == w = "get_yaml"
\* namespace: Arc<RwLock<String>> of pod_loop (and event_loop)
ReadsNamespace(w) == w = "pod_loop"
WorkerStart(w) ==
    [pc |-> IF PollsFlag(w) THEN "test" ELSE "tick", guard |-> FALSE,
     panic |-> None, at |-> None, late |-> FALSE, join |-> None]
InitThreads ==
    /\ workers = [w \in Workers |-> WorkerStart(w)]
    /\ producers = Producers
    /\ req = 0
    /\ blocked_cb = None
    /\ rx_alive = TRUE
InitContents ==
    /\ contents = [log |-> <<>>, event |-> <<>>,
                   popup_ns |-> <<>>, popup_single_ns |-> <<>>,
                   popup_yaml_name |-> <<>>]
    /\ hist = <<>>
    /\ shared = SharedDefault
InitExt ==
    /\ InitThreads
    /\ InitContents
    /\ hook = FALSE

Init ==
    /\ InitLoop
    /\ InitWindow
    /\ InitExt
    /\ table = TableBuild(0, TRUE)

(***************************************************************************)
(* The render loop (App::run, Render::render).                             *)
(***************************************************************************)
Running == table.status = "ok"

\* a loop that goes round to the draw without reading the flag
LoopTest_unconditional ==
    /\ pc = "loop" /\ Running
    /\ pc' = "draw"
    /\ UNCHANGED <<is_terminated, chan, pending, disp, since_draw, applying,
                   frame, op>>
    /\ UNCHANGED wvars
    /\ UNCHANGED xvars

\* while !is_terminated.load(Ordering::Relaxed)
LoopTest ==
    /\ pc = "loop" /\ Running
    /\ pc' = IF is_terminated THEN "done" ELSE "draw"
    /\ UNCHANGED <<is_terminated, chan, pending, disp, since_draw, applying,
                   frame, op>>
    /\ UNCHANGED wvars
    /\ UNCHANGED xvars

\* terminal.draw(|f| window.render(f))
Draw ==
    /\ pc = "draw" /\ Running
    /\ \E o \in RenderOffsets(table) :
          LET w == Window_render(Win, o)
          IN  /\ SetWin(w)
              /\ frame' = [tab |-> w.active_tab_index, popups |-> render_popup(w)]
    /\ since_draw' = 0
    /\ pc' = "recv"
    /\ UNCHANGED <<is_terminated, chan, pending, disp, applying, op>>
    /\ UNCHANGED xvars

\* The event as the dispatch record keeps it: a key with its code and
\* modifiers, a mouse event with its kind and whether the popup's chunk
\* contains it, another event by its type
Recorded(ev) ==
    CASE ev.type = "Key" -> ev
      [] ev.type = "Mouse" ->
             [type |-> "Mouse", kind |-> ev.kind, in_popup |-> ev.in_popup]
      [] OTHER -> [type |-> ev.type]

\* The kind of a message, for the dispatch record
MsgKind(msg) == IF msg.type = "User" THEN msg.ev.type ELSE msg.type

\* window_action(&mut window, &rx): rx.recv() blocks while the channel is
\* empty; the payload of the message is drawn here
WindowAction ==
    /\ pc = "recv" /\ Running
    /\ chan > 0
    /\ chan' = chan - 1
    /\ \E msg \in Messages :
          /\ msg.type = "User" => Possible(Win, msg.ev)
          /\ \E choice \in (IF msg.type = "User" THEN ChoicesFor(Win, msg.ev)
                             ELSE {"Nop"}) :
                LET out == window_action(Win, msg, choice)
                IN  /\ SetWin(out.w)
                    /\ pending' = [we |-> out.we, k |-> out.k]
                    /\ disp' = [msg |-> MsgKind(msg),
                                ev |-> IF msg.type = "User"
                                          /\ (out.res = "Ignore" \/ msg.ev.type = "Mouse")
                                       THEN Recorded(msg.ev) ELSE NoEvent,
                                to |-> out.to, res |-> out.res,
                                matched |-> out.matched, calls |-> out.calls]
    /\ since_draw' = since_draw + 1
    /\ applying' = TRUE
    /\ frame' = NoFrame
    /\ pc' = "match"
    /\ UNCHANGED <<is_terminated, op>>
    /\ UNCHANGED xvars

\* a loop that takes the next message without going round to the draw
AfterMatch_recv == "recv"

\* the position the loop continues at after the match on the WindowEvent
AfterMatch == "loop"

\* WindowEvent::Continue => {}
MatchContinue ==
    /\ pc = "match" /\ Running
    /\ pending.we = "Continue"
    /\ pc' = AfterMatch
    /\ pending' = NoPending /\ disp' = NoDisp /\ applying' = FALSE
    /\ UNCHANGED <<is_terminated, chan, since_draw, frame, op>>
    /\ UNCHANGED wvars
    /\ UNCHANGED xvars

\* WindowEvent::CloseWindow => is_terminated.store(true)
MatchCloseWindow ==
    /\ pc = "match" /\ Running
    /\ pending.we = "CloseWindow"
    /\ is_terminated' = TRUE
    /\ pc' = AfterMatch
    /\ pending' = NoPending /\ disp' = NoDisp /\ applying' = FALSE
    /\ UNCHANGED <<chan, since_draw, frame, op>>
    /\ UNCHANGED wvars
    /\ UNCHANGED xvars

\* WindowEvent::UpdateContents(ev) => update_contents(&mut window, ev, ..)
MatchUpdateContents ==
    /\ pc = "match" /\ Running
    /\ pending.we = "UpdateContents"
    /\ SetWin(update_contents(Win, pending.k))
    /\ shared' = update_shared(shared, pending.k)
    /\ pc' = AfterMatch
    /\ pending' = NoPending /\ disp' = NoDisp /\ applying' = FALSE
    /\ UNCHANGED <<is_terminated, chan, since_draw, frame, op>>
    /\ UNCHANGED <<workers, producers, req, blocked_cb, hook, rx_alive,
                   contents, hist>>

\* a producer thread (read_key, tick, KubeWorker) sends on its Sender
WorkerSend ==
    /\ chan < ChanBound
    /\ chan' = chan + 1
    /\ UNCHANGED <<pc, is_terminated, pending, disp, since_draw, applying,
                   frame, op>>
    /\ UNCHANGED wvars
    /\ UNCHANGED xvars

Next ==
    \/ LoopTest
    \/ Draw
    \/ WindowAction
    \/ MatchContinue
    \/ MatchCloseWindow
    \/ MatchUpdateContents
    \/ WorkerSend

Spec == Init /\ [][Next]_vars

(***************************************************************************)
(* The Table widget under arbitrary sequences of its operations.           *)
(***************************************************************************)
InitTable ==
    /\ InitLoop
    /\ InitWindow
    /\ InitExt
    /\ \E n \in 0..MaxRows, b \in BOOLEAN : table = TableBuild(n, b)

TableStep(name, arg, t) ==
    /\ table.status = "ok"
    /\ table' = t
    /\ op' = [name |-> name, arg |-> arg,
              prev |-> [selected |-> table.selected, len |-> Len(table.items)]]
    /\ UNCHANGED <<pc, is_terminated, chan, pending, active_tab_index,
                   mouse_over_tab_index, open_popup_id, active_widget_index,
                   frame, disp, since_draw, applying>>
    /\ UNCHANGED xvars

T_select_next == \E step \in 0..MaxStep :
    TableStep("select_next", step, select_next(table, step))
T_select_prev == \E step \in 0..MaxStep :
    TableStep("select_prev", step, select_prev(table, step))
T_select_first == TableStep("select_first", 0, select_first(table))
T_select_last == TableStep("select_last", 0, select_last(table))
T_set_items == \E n \in 0..MaxRows :
    TableStep("set_items", n, set_items(table, ItemsOfLen(n)))
T_clear == TableStep("clear", 0, clear(table))
T_get_item == TableStep("get_item", 0, get_item(table))
T_on_key_event == \E code \in KeyCodes :
    TableStep("on_key_event", 0, Table_on_key_event(table, code).t)
T_on_mouse_event == \E kind \in MouseKinds, hit \in {NoneIdx} \cup (0..(MaxRows - 1)) :
    TableStep("on_mouse_event", 0, Table_on_mouse_event(table, kind, hit).t)
T_render == \E o \in RenderOffsets(table) :
    TableStep("render", 0, [table EXCEPT !.offset = o])

NextTable ==
    \/ T_select_next
    \/ T_select_prev
    \/ T_select_first
    \/ T_select_last
    \/ T_set_items
    \/ T_clear
    \/ T_get_item
    \/ T_on_key_event
    \/ T_on_mouse_event
    \/ T_render

SpecTable == InitTable /\ [][NextTable]_vars

(***************************************************************************)
(* The Window under arbitrary sequences of its operations.                 *)
(***************************************************************************)
WindowStep(name, arg, w) ==
    /\ table.status = "ok"
    /\ pc # "panic"
    /\ SetWin(w)
    /\ op' = [name |-> name, arg |-> arg, prev |-> open_popup_id,
              tab |-> active_tab_index]
    /\ disp' = NoDisp
    /\ frame' = NoFrame
    /\ UNCHANGED <<pc, is_terminated, chan, pending, since_draw, applying>>
    /\ UNCHANGED xvars

W_activate_tab_by_index == \E i \in 0..(NumTabs + 1) :
    WindowStep("activate_tab_by_index", i, activate_tab_by_index(Win, i))
\* select_tab with every index and both builds; a panic ends the program
W_select_tab == \E i \in 0..(NumTabs + 1), overflow_checks \in BOOLEAN :
    \E o \in {select_tab(Win, i, overflow_checks)} :
        IF o.panicked
        THEN /\ table.status = "ok"
             /\ pc # "panic"
             /\ pc' = "panic"
             /\ op' = [name |-> "select_tab", arg |-> i, prev |-> open_popup_id,
                       tab |-> active_tab_index]
             /\ disp' = NoDisp
             /\ frame' = NoFrame
             /\ UNCHANGED wvars
             /\ UNCHANGED <<is_terminated, chan, pending, since_draw, applying>>
             /\ UNCHANGED xvars
        ELSE WindowStep("select_tab", i, o.w)
W_activate_next_tab == WindowStep("activate_next_tab", 0, activate_next_tab(Win))
W_activate_prev_tab == WindowStep("activate_prev_tab", 0, activate_prev_tab(Win))
W_open_popup == \E id \in PopupIds :
    WindowStep("open_popup", id, open_popup(Win, id))
W_close_popup == WindowStep("close_popup", 0, close_popup(Win))
\* what on_event found when the key is Tab or BackTab: the key, the answer
\* of the focused widget (None when a popup took the key), the focus of
\* every tab and the active tab
NoFocusKey == [key |-> None, widget |-> None, focus |-> <<>>, tab |-> NoneIdx]
FocusKey(w, ev, choice) ==
    IF ev.type = "Key" /\ ev.code \in {"Tab", "BackTab"}
    THEN [key |-> ev.code,
          widget |-> IF opening_popup(w) /\ find_popup(w) THEN None
                     ELSE ActiveWidget_on_key_event(w, ev, choice).r.kind,
          focus |-> w.active_widget_index,
          tab |-> w.active_tab_index]
    ELSE NoFocusKey
W_on_event ==
    /\ table.status = "ok"
    /\ pc # "panic"
    /\ \E ev \in UserEvents :
          /\ Possible(Win, ev)
          /\ \E choice \in ChoicesFor(Win, ev) :
                /\ \E o \in {Window_on_event(Win, ev, choice)} :
                      /\ SetWin(o.w)
                      /\ disp' = [msg |-> ev.type, ev |-> NoEvent, to |-> o.to,
                                  res |-> o.r.kind, matched |-> 0, calls |-> 0]
                /\ op' = [name |-> "on_event", arg |-> 0, prev |-> open_popup_id,
                          tabkey |-> FocusKey(Win, ev, choice)]
    /\ frame' = NoFrame
    /\ UNCHANGED <<pc, is_terminated, chan, pending, since_draw, applying>>
    /\ UNCHANGED xvars
W_render ==
    /\ table.status = "ok"
    /\ pc # "panic"
    /\ \E o \in RenderOffsets(table) :
          LET w == Window_render(Win, o)
          IN  /\ SetWin(w)
              /\ frame' = [tab |-> w.active_tab_index, popups |-> render_popup(w)]
    /\ op' = [name |-> "render", arg |-> 0, prev |-> open_popup_id]
    /\ disp' = NoDisp
    /\ UNCHANGED <<pc, is_terminated, chan, pending, since_draw, applying>>
    /\ UNCHANGED xvars

NextWindow ==
    \/ W_activate_tab_by_index
    \/ W_select_tab
    \/ W_activate_next_tab
    \/ W_activate_prev_tab
    \/ W_open_popup
    \/ W_close_popup
    \/ W_on_event
    \/ W_render

SpecWindow == Init /\ [][NextWindow]_vars

(***************************************************************************)
(* The threads: the render loop with the workers and the input threads     *)
(* that feed its channel, the requests it sends to the Kubernetes worker,  *)
(* the panic hook and the joins.                                           *)
(***************************************************************************)
\* capacity of the request channel (tx_main / rx_kube), bounded(256) in the
\* program
ReqBound == 1

\* what a panic carries: a &'static str (panic!("..") with a literal,
\* Option::unwrap on None) or a String (the formatted message of
\* Result::unwrap and expect)
PanicPayloads == {"str", "String"}

\* the messages the threads of this specification put on the channel
ThreadMessages ==
    {[type |-> "Tick"]}
    \cup {[type |-> "User", ev |-> Key(c, "NONE")] : c \in {"n", "q", "Enter"}}
    \cup {[type |-> "Kube", k |-> [kind |-> "Event", ok |-> TRUE, n |-> 0]]}
    \cup {[type |-> "Kube", k |-> KubePod(ok, 0)] : ok \in BOOLEAN}
    \cup {[type |-> "Kube", k |-> KubeNamespaceSet(<<"a">>)],
          [type |-> "Kube", k |-> KubeRestoreContext("ctx", <<"a">>)]}

\* the thread of worker w has ended
Ended(w) == workers[w].pc \in {"exited", "panicked"}
\* every Sender of the render loop's channel is dropped
NoSenders == producers = {} /\ \A w \in Workers : Ended(w)

rvars == <<pc, pending, disp, since_draw, applying, frame, op, contents, hist,
           shared>>

\* the callback window_action runs for a message, None when it runs none
CallbackOf(w, msg, choice) ==
    IF msg.type # "User" THEN None
    ELSE LET o == Window_on_event(w, msg.ev, choice)
         IN  CASE o.r.kind = "Ignore" ->
                      LET i == match_callback(msg.ev)
                      IN  IF i = 0 THEN None ELSE callbacks[i].cb
               [] o.r.kind = "Callback" -> o.r.cb
               [] OTHER -> None
\* the callbacks that begin with tx.send(..).expect(..)
SendsRequest(cb) ==
    cb \in {"open_ns", "open_single_ns", "open_ctx", "cb_ctx", "cb_single_ns",
            "cb_ns", "cb_list", "cb_yaml_kind", "cb_yaml_name", "act_open_list"}

(* window_action(&mut window, &rx) when rx.recv() returns a message.  A    *)
(* callback that sends a request does so before it touches the window:     *)
(* when the request channel is full the render thread stays in that send   *)
(* (pc = "send") with the window as on_event left it.                      *)
ThreadRecv ==
    /\ pc = "recv" /\ Running
    /\ chan > 0
    /\ chan' = chan - 1
    /\ \E msg \in ThreadMessages :
          \E choice \in (IF msg.type = "User" THEN ChoicesFor(Win, msg.ev)
                         ELSE {"Nop"}) :
             LET cb == CallbackOf(Win, msg, choice)
                 out == window_action(Win, msg, choice)
             IN  IF SendsRequest(cb) /\ req = ReqBound
                 THEN /\ SetWin(Window_on_event(Win, msg.ev, choice).w)
                      /\ pending' = NoPending
                      /\ blocked_cb' = cb
                      /\ pc' = "send"
                      /\ req' = req
                 ELSE /\ SetWin(out.w)
                      /\ pending' = [we |-> out.we, k |-> out.k]
                      /\ blocked_cb' = None
                      /\ pc' = "match"
                      /\ req' = IF SendsRequest(cb) THEN req + 1 ELSE req
    /\ since_draw' = since_draw + 1
    /\ applying' = TRUE
    /\ frame' = NoFrame
    /\ disp' = NoDisp
    /\ UNCHANGED <<is_terminated, op, workers, producers, hook, rx_alive>>
    /\ UNCHANGED cvars

\* the blocked tx.send returns once the request channel has room: the rest
\* of the callback runs and window_action returns
SendUnblocked ==
    /\ pc = "send" /\ Running
    /\ req < ReqBound
    /\ req' = req + 1
    /\ LET c == RunCallback(blocked_cb, Win)
       IN  /\ SetWin(c.w)
           /\ pending' = [we |-> IF c.r.kind = "Window" THEN c.r.cb
                                 ELSE "Continue",
                          k |-> NoKube]
    /\ blocked_cb' = None
    /\ pc' = "match"
    /\ UNCHANGED <<is_terminated, chan, disp, since_draw, applying, frame, op,
                   workers, producers, hook, rx_alive>>
    /\ UNCHANGED cvars

\* a receive that keeps waiting on a channel that every Sender has left
RecvClosed_waits ==
    /\ pc = "recv" /\ Running
    /\ chan = 0 /\ NoSenders
    /\ UNCHANGED vars

\* rx.recv().expect("Failed to recv") on an empty channel whose Senders are
\* all dropped: recv returns Err and expect panics; the panic hook of
\* Render::set_panic_hook, when installed, stores true in the flag
RecvClosed ==
    /\ pc = "recv" /\ Running
    /\ chan = 0 /\ NoSenders
    /\ pc' = "panic"
    /\ is_terminated' = (is_terminated \/ hook)
    /\ UNCHANGED <<chan, pending, disp, since_draw, applying, frame, op>>
    /\ UNCHANGED wvars
    /\ UNCHANGED xvars

\* the thread of the render loop ends (Render::start stores true in the flag
\* after render() has returned) and its Receiver is dropped; in App::run the
\* Receiver lives until run returns, after the joins
RxDrop ==
    /\ rx_alive
    /\ \/ pc = "panic"
       \/ /\ pc = "done"
          /\ \/ hook
             \/ \A w \in Workers : workers[w].join # None
             \/ \E w \in Workers : workers[w].join = "reraised"
    /\ rx_alive' = FALSE
    /\ is_terminated' = (is_terminated \/ (hook /\ pc = "done"))
    /\ UNCHANGED <<chan, workers, producers, req, blocked_cb, hook>>
    /\ UNCHANGED rvars
    /\ UNCHANGED wvars

\* the Kubernetes worker takes a request from rx_kube
KubeRecv ==
    /\ req > 0
    /\ req' = req - 1
    /\ UNCHANGED <<is_terminated, chan, workers, producers, blocked_cb, hook,
                   rx_alive>>
    /\ UNCHANGED rvars
    /\ UNCHANGED wvars

\* read_key and tick send on their Senders
ProducerSend ==
    /\ producers # {} /\ rx_alive
    /\ chan < ChanBound
    /\ chan' = chan + 1
    /\ UNCHANGED <<is_terminated, workers, producers, req, blocked_cb, hook,
                   rx_alive>>
    /\ UNCHANGED rvars
    /\ UNCHANGED wvars

\* read_key and tick leave their loops once they read the flag as set
ProducerExit(p) ==
    /\ p \in producers
    /\ is_terminated
    /\ producers' = producers \ {p}
    /\ UNCHANGED <<is_terminated, chan, workers, req, blocked_cb, hook, rx_alive>>
    /\ UNCHANGED rvars
    /\ UNCHANGED wvars

\* a step of worker w that changes only the worker itself
WorkerOnly(w, st) ==
    /\ workers' = [workers EXCEPT ![w] = st]
    /\ UNCHANGED <<is_terminated, chan, producers, req, blocked_cb, hook,
                   rx_alive>>
    /\ UNCHANGED rvars
    /\ UNCHANGED wvars

\* worker w panics: unwinding drops its read guard and its Sender, and the
\* panic hook runs
Panics(w, at, payload) ==
    /\ workers' = [workers EXCEPT ![w] =
                      [@ EXCEPT !.pc = "panicked", !.guard = FALSE,
                                !.panic = payload, !.at = at]]
    /\ is_terminated' = (is_terminated \/ hook)

\* while !self.is_terminated.load(Ordering::Relaxed)   (GetYamlWorker::run)
W_Test(w) ==
    /\ PollsFlag(w)
    /\ workers[w].pc = "test"
    /\ WorkerOnly(w, [workers[w] EXCEPT
                         !.pc = IF is_terminated THEN "exited" ELSE "tick"])

\* interval.tick().await returns
W_Tick(w) ==
    /\ workers[w].pc = "tick"
    /\ WorkerOnly(w, [workers[w] EXCEPT
                         !.pc = IF ReadsNamespace(w) THEN "read" ELSE "fetch"])

\* let ns = namespace.read().await: the guard lives to the end of the
\* iteration
W_Read(w) ==
    /\ workers[w].pc = "read"
    /\ WorkerOnly(w, [workers[w] EXCEPT !.pc = "fetch", !.guard = TRUE])

\* the await of the API call returns (get_event_list, get_pod_info,
\* fetch_resource_yaml); the unwraps of get_event_list and get_pod_info
\* panic on an error or a missing field
W_Fetch(w) ==
    /\ workers[w].pc = "fetch"
    /\ \/ WorkerOnly(w, [workers[w] EXCEPT !.pc = "send"])
       \/ /\ ReadsNamespace(w)
          /\ \E payload \in PanicPayloads : Panics(w, "fetch", payload)
          /\ UNCHANGED <<chan, producers, req, blocked_cb, hook, rx_alive>>
          /\ UNCHANGED rvars
          /\ UNCHANGED wvars

\* a worker that writes its rows into the pod table itself instead of
\* sending them
W_Send_into_widget(w) ==
    /\ workers[w].pc = "send"
    /\ table' = set_items(table, ItemsOfLen(1))
    /\ workers' = [workers EXCEPT ![w] =
                      [@ EXCEPT !.pc = IF PollsFlag(w) THEN "test" ELSE "tick",
                                !.guard = FALSE]]
    /\ UNCHANGED <<is_terminated, chan, producers, req, blocked_cb, hook,
                   rx_alive, active_tab_index, mouse_over_tab_index,
                   open_popup_id, active_widget_index>>
    /\ UNCHANGED rvars

\* tx.send(..).unwrap() / .expect(..): blocks while the channel is full,
\* panics when the Receiver is dropped; the iteration ends after it
W_Send(w) ==
    /\ workers[w].pc = "send"
    /\ IF ~rx_alive
       THEN /\ Panics(w, "send", "String")
            /\ UNCHANGED chan
       ELSE /\ chan < ChanBound
            /\ chan' = chan + 1
            /\ workers' = [workers EXCEPT ![w] =
                              [@ EXCEPT !.pc = IF PollsFlag(w) THEN "test"
                                               ELSE "tick",
                                        !.guard = FALSE,
                                        !.late = @ \/ (~PollsFlag(w) /\ is_terminated)]]
            /\ UNCHANGED is_terminated
    /\ UNCHANGED <<producers, req, blocked_cb, hook, rx_alive>>
    /\ UNCHANGED rvars
    /\ UNCHANGED wvars

\* match handler.join(): Ok(ret) => ret?, Err(e) => panic!(..) when the
\* payload is a &str, nothing otherwise
JoinResult(w) ==
    IF workers[w].pc = "exited" THEN "ok"
    ELSE IF workers[w].panic = "str" THEN "reraised"
    ELSE "ignored"
Join(w) ==
    /\ pc \in {"done"} \cup (IF hook THEN {"panic"} ELSE {})
    /\ \A v \in Workers : workers[v].join # "reraised"
    /\ Ended(w)
    /\ workers[w].join = None
    /\ WorkerOnly(w, [workers[w] EXCEPT !.join = JoinResult(w)])

InitThreadsSpec ==
    /\ InitLoop
    /\ InitWindow
    /\ InitThreads
    /\ InitContents
    /\ hook \in BOOLEAN
    /\ table = TableBuild(0, TRUE)

NextThreads ==
    \/ LoopTest
    \/ Draw
    \/ ThreadRecv
    \/ SendUnblocked
    \/ RecvClosed
    \/ MatchContinue
    \/ MatchCloseWindow
    \/ MatchUpdateContents
    \/ RxDrop
    \/ KubeRecv
    \/ ProducerSend
    \/ \E p \in Producers : ProducerExit(p)
    \/ \E w \in Workers : W_Test(w)
    \/ \E w \in Workers : W_Tick(w)
    \/ \E w \in Workers : W_Read(w)
    \/ \E w \in Workers : W_Fetch(w)
    \/ \E w \in Workers : W_Send(w)
    \/ \E w \in Workers : Join(w)

SpecThreads == InitThreadsSpec /\ [][NextThreads]_vars

(* The same threads under a fair scheduler: a thread that can take a step  *)
(* takes it in the end (the render loop, the Kubernetes worker draining    *)
(* its requests, the input threads leaving on the flag, each worker).      *)
RenderStep ==
    \/ LoopTest
    \/ Draw
    \/ ThreadRecv
    \/ SendUnblocked
    \/ RecvClosed
    \/ MatchContinue
    \/ MatchCloseWindow
    \/ MatchUpdateContents
WorkerStep(w) ==
    \/ W_Test(w)
    \/ W_Tick(w)
    \/ W_Read(w)
    \/ W_Fetch(w)
    \/ W_Send(w)
Fairness ==
    /\ WF_vars(RenderStep)
    /\ WF_vars(KubeRecv)
    /\ \A p \in Producers : WF_vars(ProducerExit(p))
    /\ \A w \in Workers : WF_vars(WorkerStep(w))
SpecThreadsFair == InitThreadsSpec /\ [][NextThreads]_vars /\ Fairness

(***************************************************************************)
(* The contents of the widgets under sequences of Kube messages            *)
(* (update_contents): the pod table, the log widget and the event widget.  *)
(***************************************************************************)
\* number of Kube messages applied in a behaviour
MaxMsgs == 2

\* the payloads of the log and event messages: Vec<String>
Payloads == {<<>>, <<"a">>, <<"b">>, <<"a", "b">>}
KubeLines(kind, ok, lines) ==
    [kind |-> kind, ok |-> ok, n |-> Len(lines), lines |-> lines]
ContentMessages ==
    {KubePod(ok, n) : ok \in BOOLEAN, n \in 0..MaxItems}
    \cup {KubeLines(kind, TRUE, l) : kind \in {"Log", "Event"}, l \in Payloads}
    \cup {KubeLines(kind, FALSE, <<>>) : kind \in {"Log", "Event"}}

\* error_lines!(e): what is shown for an Err payload
ErrorLines == <<"ERROR">>
\* the lines a message carries into its widget
Shown(k) == IF k.ok THEN k.lines ELSE ErrorLines

\* widget.update_widget_item(Item::Array(..)): the item becomes the content
update_widget_item(content, item) == item
\* an append that drops what the widget held
append_widget_item_replaces(content, item) == item
\* widget.append_widget_item(Item::Array(..)): the item is added at the end
append_widget_item(content, item) == content \o item

\* the Kube::Log, Kube::Event, NamespaceResponse::Get and RestoreContext
\* arms of update_contents, on the contents of the log widget, of the event
\* widget and of the namespace popups
update_text_contents(c, k) ==
    CASE k.kind = "Log" -> [c EXCEPT !.log = append_widget_item(@, Shown(k))]
      [] k.kind = "Event" -> [c EXCEPT !.event = update_widget_item(@, Shown(k))]
      [] k.kind = "NamespaceGet" ->
             [c EXCEPT !.popup_ns = update_widget_item(@, Shown(k)),
                       !.popup_single_ns = update_widget_item(@, Shown(k))]
      [] k.kind = "RestoreContext" ->
             [c EXCEPT !.popup_ns = update_widget_item(@, k.ns)]
      [] k.kind = "YamlResource" ->
             IF k.ok /\ k.n = 0 THEN c
             ELSE [c EXCEPT !.popup_yaml_name =
                      update_widget_item(@, IF k.ok THEN [i \in 1..k.n |-> "item"]
                                            ELSE ErrorLines)]
      [] OTHER -> c

\* update_contents(&mut window, ev, ..) for one Kube message
K_update_contents ==
    /\ table.status = "ok"
    /\ Len(hist) < MaxMsgs
    /\ \E k \in ContentMessages :
          /\ SetWin(update_contents(Win, k))
          /\ contents' = update_text_contents(contents, k)
          /\ hist' = Append(hist, k)
          /\ shared' = update_shared(shared, k)
    /\ UNCHANGED <<pc, is_terminated, chan, pending, frame, disp, since_draw,
                   applying, op, workers, producers, req, blocked_cb, hook,
                   rx_alive>>

NextContents == K_update_contents

SpecContents == Init /\ [][NextContents]_vars

(***************************************************************************)
(* The render loop one message at a time: window_action and the arm of     *)
(* the match it leads to, on the window, the contents of the widgets, the  *)
(* current context and namespaces, and the flag.                           *)
(***************************************************************************)
\* number of messages the loop takes in this specification
MaxApplied == 3

\* the ids of the widgets of the tabs WindowInit::tabs_popups builds
TabWidgetIds ==
    {"tab_pod_widget_pod", "tab_pod_widget_log", "tab_config_widget_config",
     "tab_config_widget_raw_data", "tab_network_widget_network",
     "tab_network_widget_description", "tab_event_widget_event",
     "tab_list_widget_list", "tab_yaml_widget_yaml"}
\* a lookup that has a widget for every id
find_widget_lenient(id) == TRUE
\* Window::find_widget / find_widget_mut: the popup or the tab widget with
\* the id; FALSE stands for the panic!("Could not find widget id [{}]")
find_widget(id) == id \in PopupIds \cup TabWidgetIds

\* the ids update_contents looks up for a message, in the order of the calls
Lookups(k) ==
    CASE k.kind = "Pod" -> <<"tab_pod_widget_pod">>
      [] k.kind = "Log" -> <<"tab_pod_widget_log">>
      [] k.kind = "Event" -> <<"tab_event_widget_event">>
      [] k.kind = "NamespaceGet" -> <<"popup_ns", "popup_single_ns">>
      [] k.kind = "RestoreContext" -> <<"popup_ns", "popup_ns">>
      [] k.kind = "DirectedYaml" -> <<"popup_yaml", "popup_yaml">>
      [] k.kind = "YamlResource" ->
             IF k.ok /\ k.n = 0 THEN <<>> ELSE <<"popup_yaml_name">>
      [] OTHER -> <<>>
\* the first lookup of the arm finds no widget: the arm panics before it
\* has changed anything
LookupFails(k) == Lookups(k) # <<>> /\ ~find_widget(Head(Lookups(k)))

\* the header closure: " ctx: {}" and " ns: {}" of the two shared values
Header(s) == <<" ctx: ", s.context, " ns: ", s.namespace>>

ApplyMessages ==
    {[type |-> "Tick"], [type |-> "Error"]}
    \cup {[type |-> "User", ev |-> Key(c, "NONE")] : c \in {"n", "j", "q", "Esc"}}
    \cup {[type |-> "Kube", k |-> KubePod(ok, 1)] : ok \in BOOLEAN}
    \cup {[type |-> "Kube", k |-> KubeLines(kind, FALSE, <<>>)] :
              kind \in {"Log", "Event", "NamespaceGet", "DirectedYaml"}}
    \cup {[type |-> "Kube", k |-> KubeLines(kind, TRUE, <<"a", "b">>)] :
              kind \in {"NamespaceGet", "DirectedYaml"}}
    \cup {[type |-> "Kube", k |-> KubeNamespaceSet(<<"a">>)],
          [type |-> "Kube", k |-> KubeRestoreContext("ctx", <<"a">>)]}
    \cup {[type |-> "Kube", k |-> k] :
              k \in {KubeYamlResource(TRUE, 0), KubeYamlResource(TRUE, 1),
                     KubeYamlResource(FALSE, 0)}}

\* what one turn of the loop finds: the window, the contents, the shared
\* values and the flag
Snapshot ==
    [w |-> Win, c |-> contents, s |-> shared, flag |-> is_terminated]

(* One turn of the loop for one message: the test of the flag,             *)
(* window_action, then the arm of the match: Continue, CloseWindow (which  *)
(* stores true in the flag) or UpdateContents.  A lookup that fails        *)
(* unwinds the render thread; the panic hook, when installed, stores true  *)
(* in the flag.                                                            *)
A_message ==
    /\ pc = "loop" /\ Running
    /\ ~is_terminated
    /\ Len(hist) < MaxApplied
    /\ \E msg \in ApplyMessages :
          \E choice \in (IF msg.type = "User" THEN ChoicesFor(Win, msg.ev)
                         ELSE {"Nop"}) :
             \E out \in {window_action(Win, msg, choice)} :
                /\ hist' = Append(hist, msg)
                /\ op' = [name |-> "message", arg |-> 0, prev |-> Snapshot,
                          res |-> out.res, matched |-> out.matched]
                /\ \/ /\ out.we = "UpdateContents"
                      /\ LookupFails(out.k)
                      /\ pc' = "panic"
                      /\ is_terminated' = (is_terminated \/ hook)
                      /\ UNCHANGED wvars
                      /\ UNCHANGED <<contents, shared>>
                   \/ /\ out.we = "UpdateContents"
                      /\ ~LookupFails(out.k)
                      /\ pc' = "loop"
                      /\ SetWin(update_contents(out.w, out.k))
                      /\ contents' = update_text_contents(contents, out.k)
                      /\ shared' = update_shared(shared, out.k)
                      /\ UNCHANGED is_terminated
                   \/ /\ out.we # "UpdateContents"
                      /\ pc' = "loop"
                      /\ SetWin(out.w)
                      /\ is_terminated' = (out.we = "CloseWindow")
                      /\ UNCHANGED <<contents, shared>>
    /\ UNCHANGED <<chan, pending, frame, disp, since_draw, applying, workers,
                   producers, req, blocked_cb, hook, rx_alive>>

InitApply ==
    /\ InitLoop
    /\ InitWindow
    /\ InitThreads
    /\ InitContents
    /\ hook \in BOOLEAN
    /\ table = TableBuild(0, TRUE)

NextApply == A_message

SpecApply == InitApply /\ [][NextApply]_vars

(***************************************************************************)
(* The layout of the Table widget: Table::set_widths on the display widths *)
(* of the header cells and the lengths of the cells of the rows.           *)
(***************************************************************************)
\* most columns of a table, widest cell and widest row of the render area
MaxCols == 3
MaxCell == 3
MaxRowWidth == 12
\* const COLUMN_SPACING: u16 = 3
COLUMN_SPACING == 3

RECURSIVE Sum(_)
\* iter().sum::<usize>()
Sum(seq) == IF seq = <<>> THEN 0 ELSE Head(seq) + Sum(Tail(seq))

\* the loop over the rows: digits[i] becomes the length of a longer cell
\* (the rows here have as many cells as the header)
NaturalWidths(header, items) ==
    [i \in DOMAIN header |->
        LET longer == {items[r][i] : r \in DOMAIN items} \cup {header[i]}
        IN  CHOOSE m \in longer : \A x \in longer : x <= m]
\* COLUMN_SPACING as usize * self.digits.len().saturating_sub(1)
Spacing(digits) == COLUMN_SPACING * SatSub(Len(digits), 1)
\* what the columns take of the row: the widths and the spacing between them
TotalWidth(digits) == Sum(digits) + Spacing(digits)

\* fn set_widths(&mut self): the digits it leaves (the widths are the
\* Constraint::Length of each); old is what digits held before the call
set_widths(header, items, row_width, old) ==
    IF items = <<>> THEN old
    ELSE LET digits == NaturalWidths(header, items)
         IN  IF TotalWidth(digits) <= row_width THEN digits
             ELSE [digits EXCEPT ![1] =
                      SatSub(row_width, Spacing(digits) + Sum(Tail(digits)))]

\* the tables the layout is computed for: a header of one to MaxCols cells
\* and at most one row, whose cells have one length
Seqs(S, n) == UNION {[1..m -> S] : m \in 1..n}
WidthInputs ==
    UNION {{[name |-> "table", header |-> h, items |-> it, row_width |-> rw] :
               it \in {<<>>} \cup {<<[i \in DOMAIN h |-> c]>> : c \in 1..MaxCell},
               rw \in 0..MaxRowWidth} :
           h \in Seqs(1..MaxCell, MaxCols)}

\* the state around an input of a function checked on its own
InitInput(inputs) ==
    /\ pc = "loop"
    /\ is_terminated = FALSE
    /\ chan = 0
    /\ pending = NoPending
    /\ disp = NoDisp
    /\ since_draw = 0
    /\ applying = FALSE
    /\ frame = NoFrame
    /\ op \in inputs
    /\ InitWindow
    /\ InitExt
    /\ table = TableBuild(0, TRUE)
\* the function is applied: op holds its input and its result
Applied(o) ==
    /\ op' = o
    /\ UNCHANGED <<pc, is_terminated, chan, pending, frame, disp, since_draw,
                   applying>>
    /\ UNCHANGED wvars
    /\ UNCHANGED xvars

InitWidths == InitInput(WidthInputs)
L_set_widths ==
    /\ op.name = "table"
    /\ Applied([name |-> "set_widths", header |-> op.header,
                items |-> op.items, row_width |-> op.row_width,
                digits |-> set_widths(op.header, op.items, op.row_width, <<>>)])
NextWidths == L_set_widths
SpecWidths == InitWidths /\ [][NextWidths]_vars

(***************************************************************************)
(* The wrap pass of the text widget (text2.rs, mod wrap).  A grapheme is   *)
(* a record of its symbol and its display width (1 or 2); a line is a      *)
(* sequence of graphemes.  The state of a Wrap iterator is held in op:     *)
(* the line it was made for, wrap_width (NoneIdx for None), what is left   *)
(* of the line (rest), the lines next() has returned (out), and done once  *)
(* next() has returned None.                                               *)
(***************************************************************************)
\* longest line, widest wrap and most lines taken from one iterator
MaxLen == 4
MaxWrap == 5
MaxEmit == 5

\* sg.symbol.width() summed over a slice
RECURSIVE LineWidth(_)
LineWidth(l) == IF l = <<>> THEN 0 ELSE Head(l).width + LineWidth(Tail(l))
\* &line[..i] and &line[i..], i counted from 0
Before(l, i) == SubSeq(l, 1, i)
From(l, i) == SubSeq(l, i + 1, Len(l))

RECURSIVE WrapLoop(_, _, _, _, _)
\* a wrap that cuts after the grapheme that does not fit
wrap_after(line, wrap_width) == WrapLoop(line, wrap_width, 0, 0, 1)
\* a wrap whose remainder starts after the grapheme that does not fit
wrap_drop(line, wrap_width) == WrapLoop(line, wrap_width, 0, 0, 2)
\* the for loop of wrap over line.iter().enumerate(): i is the index, sum
\* the width of the graphemes before it; how is 0 for the cut of the
\* program (&line[..i], &line[i..])
WrapLoop(line, wrap_width, i, sum, how) ==
    IF i >= Len(line) THEN [wrapped |-> line, remaining |-> <<>>]
    ELSE LET width == line[i + 1].width
         IN  IF wrap_width < sum + width
             THEN [wrapped |-> Before(line, IF how = 1 THEN i + 1 ELSE i),
                   remaining |-> From(line, IF how = 0 THEN i ELSE i + 1)]
             ELSE WrapLoop(line, wrap_width, i + 1, sum + width, how)
\* fn wrap(line, wrap_width) -> WrapResult
wrap(line, wrap_width) == WrapLoop(line, wrap_width, 0, 0, 0)

\* the lines of one to MaxLen graphemes of width 1 or 2, the symbol of a
\* grapheme being its place in the line, and the empty line
Lines ==
    {<<>>} \cup
    UNION {{[i \in 1..n |-> [symbol |-> i, width |-> ws[i]]] :
               ws \in [1..n -> {1, 2}]} : n \in 1..MaxLen}
\* line.wrap(wrap_width)
WrapInputs ==
    {[name |-> "wrap", line |-> l, wrap_width |-> w, rest |-> l, out |-> <<>>,
      done |-> FALSE] : l \in Lines, w \in {NoneIdx} \cup (0..MaxWrap)}

InitWrap == InitInput(WrapInputs)
\* impl Iterator for Wrap: fn next(&mut self)
Wrap_next ==
    /\ op.name = "wrap"
    /\ ~op.done
    /\ Len(op.out) < MaxEmit
    /\ Applied(
          IF op.rest = <<>> THEN [op EXCEPT !.done = TRUE]
          ELSE IF op.wrap_width # NoneIdx
               THEN LET r == wrap(op.rest, op.wrap_width)
                    IN  [op EXCEPT !.rest = r.remaining,
                                   !.out = Append(@, r.wrapped)]
               ELSE [op EXCEPT !.rest = <<>>, !.out = Append(@, op.rest)])
NextWrap == Wrap_next
SpecWrap == InitWrap /\ [][NextWrap]_vars

(***************************************************************************)
(* The line iterator of the text widget (text2.rs, mod render): the        *)
(* graphemes of one line that are drawn for a horizontal scroll and a      *)
(* render width.  The state of a LineIterator is held in op: its fields    *)
(* line, scroll, render_width, n, sum_width, sum_width_offset, the         *)
(* graphemes next() has returned (out), and done once it returned None.    *)
(***************************************************************************)
\* furthest scroll to the right and widest render area
MaxScroll == 3
MaxRender == 4

\* const RENDER_LEFT_PADDING, const RENDER_RIGHT_PADDING
RENDER_LEFT_PADDING == [symbol |-> "<", width |-> 1]
RENDER_RIGHT_PADDING == [symbol |-> ">", width |-> 1]

RECURSIVE StartLoop(_, _, _, _)
\* the for loop of LineIterator::start: i graphemes lie left of the scroll,
\* sum is their width
StartLoop(line, scroll, i, sum) ==
    IF i >= Len(line) THEN <<i, sum>>
    ELSE IF scroll < sum + line[i + 1].width THEN <<i, sum>>
         ELSE StartLoop(line, scroll, i + 1, sum + line[i + 1].width)
\* fn start(line, scroll) -> (usize, usize)
start(line, scroll) == StartLoop(line, scroll, 0, 0)

\* fn new(line, scroll, width) -> Self
LineIterator_new(line, scroll, width) ==
    [name |-> "line", line |-> line, scroll |-> scroll, render_width |-> width,
     n |-> start(line, scroll)[1], sum_width |-> 0,
     sum_width_offset |-> start(line, scroll)[2], out |-> <<>>, done |-> FALSE]
LineInputs ==
    {LineIterator_new(l, s, w) :
        l \in Lines, s \in 0..MaxScroll, w \in 0..MaxRender}

\* impl Iterator for LineIterator: fn next(&mut self)
LineIterator_next(it) ==
    IF Len(it.line) <= it.n THEN [it EXCEPT !.done = TRUE]
    ELSE LET sg == it.line[it.n + 1]
             sum_width == it.sum_width + sg.width
         IN  IF /\ sg.width = 2
                /\ SatSub(sum_width + it.sum_width_offset, it.scroll) = 1
             THEN [it EXCEPT !.n = @ + 1, !.sum_width = sum_width - 1,
                             !.out = Append(@, RENDER_LEFT_PADDING)]
             ELSE IF sum_width <= it.render_width
             THEN [it EXCEPT !.n = @ + 1, !.sum_width = sum_width,
                             !.out = Append(@, sg)]
             ELSE IF sg.width = 2 /\ SatSub(sum_width, it.render_width) = 1
             THEN [it EXCEPT !.n = @ + 1, !.sum_width = sum_width - 1,
                             !.out = Append(@, RENDER_RIGHT_PADDING)]
             ELSE [it EXCEPT !.sum_width = sum_width, !.done = TRUE]

InitLine == InitInput(LineInputs)
\* the for loop of Render::render takes the next grapheme of the line
Line_next ==
    /\ op.name = "line"
    /\ ~op.done
    /\ Applied(LineIterator_next(op))
NextLine == Line_next
SpecLine == InitLine /\ [][NextLine]_vars

(***************************************************************************)
(* The Table widget as it is laid out and clicked: set_items with          *)
(* set_widths and set_rows, update_chunk, and the hit test of a left       *)
(* click.  A cell is the length of its text; wrap_line(cell, width) is     *)
(* known by the number of lines it returns.                                *)
(***************************************************************************)
\* widest inner chunk, most cells of a row, most rows, longest cell
MaxInner == 11
MaxCells == 3
MaxLayoutRows == 2
MaxText == 6
\* const ROW_START_INDEX: usize = 2
ROW_START_INDEX == 2

\* super::wrap::wrap_line: the number of lines a text of len columns takes
\* at the given width (at least one grapheme on a line)
wrap_line(len, width) ==
    IF len = 0 THEN 0
    ELSE LET w == Max(width, 1) IN (len + w - 1) \div w

LayoutDefault(header) ==
    [header |-> header, items |-> <<>>, row_width |-> 0, digits |-> <<>>,
     heights |-> <<>>, margin |-> 0, row_bounds |-> <<>>,
     selected |-> NoneIdx, status |-> "ok"]

RECURSIVE WidthsOfCells(_, _, _)
\* for (i, col) in row.iter().enumerate(), i counted from 1 here:
\* `if self.digits.len() < i { break; }` lets the index digits.len() pass,
\* and digits[i] is then out of range
WidthsOfCells(digits, row, i) ==
    IF i > Len(row) THEN [digits |-> digits, panicked |-> FALSE]
    ELSE IF Len(digits) < i - 1 THEN [digits |-> digits, panicked |-> FALSE]
    ELSE IF i > Len(digits) THEN [digits |-> digits, panicked |-> TRUE]
    ELSE WidthsOfCells(IF digits[i] < row[i] THEN [digits EXCEPT ![i] = row[i]]
                       ELSE digits, row, i + 1)
RECURSIVE WidthsOfRows(_, _, _)
\* for row in &self.items
WidthsOfRows(digits, items, r) ==
    IF r > Len(items) THEN [digits |-> digits, panicked |-> FALSE]
    ELSE LET c == WidthsOfCells(digits, items[r], 1)
         IN  IF c.panicked THEN c ELSE WidthsOfRows(c.digits, items, r + 1)

\* fn set_widths(&mut self) on the whole table, rows of any number of cells
Table_set_widths(t) ==
    IF t.items = <<>> THEN t
    ELSE LET first == IF t.header = <<>> THEN t.items[1] ELSE t.header
             l == WidthsOfRows(first, t.items, 1)
             d == l.digits
         IN  IF l.panicked THEN [t EXCEPT !.status = "panic"]
             ELSE IF TotalWidth(d) <= t.row_width THEN [t EXCEPT !.digits = d]
             ELSE [t EXCEPT !.digits = [d EXCEPT ![1] =
                      SatSub(t.row_width, Spacing(d) + Sum(Tail(d)))]]

\* the height of a row: the most lines a cell wraps into, at least 1
RowHeight(row, digits) ==
    LET lines == {wrap_line(row[i], digits[i]) : i \in DOMAIN row} \cup {1}
    IN  CHOOSE m \in lines : \A x \in lines : x <= m
\* fn set_rows(&mut self): the heights of the rows, the margin below each
\* row (1 as soon as one cell wraps) and the row bounds: the scan over the
\* heights, moved down by one line per earlier row when there is a margin
Table_set_rows(t) ==
    IF t.digits = <<>> THEN t
    ELSE IF \E r \in DOMAIN t.items : Len(t.items[r]) > Len(t.digits)
    THEN [t EXCEPT !.status = "panic"]
    ELSE LET h == [r \in DOMAIN t.items |-> RowHeight(t.items[r], t.digits)]
             margin == IF \E r \in DOMAIN h : h[r] > 1 THEN 1 ELSE 0
             top(r) == Sum(SubSeq(h, 1, r - 1))
         IN  [t EXCEPT !.heights = h,
                       !.margin = margin,
                       !.row_bounds =
                          [r \in DOMAIN h |->
                              <<top(r) + margin * (r - 1),
                                top(r) + SatSub(h[r], 1) + margin * (r - 1)>>]]

\* fn set_items(&mut self, items: WidgetItem)
Table_set_items(t, items) ==
    LET sel == CASE Len(items) = 0 -> NoneIdx
                 [] Len(items) > 0 /\ Len(items) < Len(t.items) -> Len(items) - 1
                 [] OTHER -> IF t.selected = NoneIdx THEN 0 ELSE t.selected
        t1 == Table_set_widths([t EXCEPT !.selected = sel, !.items = items])
    IN  IF t1.status = "panic" THEN t1 ELSE Table_set_rows(t1)

\* fn update_chunk(&mut self, chunk: Rect), by the width of the inner chunk:
\* self.row_width = self.inner_chunk.width.saturating_sub(2)
Table_update_chunk(t, inner_width) ==
    [t EXCEPT !.row_width = SatSub(inner_width, 2)]

\* the rows from offset on (counted from 0) whose bounds, taken relative to
\* the bounds of the row at offset, hold the clicked line
ClickHits(t, offset, line) ==
    {k \in offset..(Len(t.items) - 1) :
        LET b == t.row_bounds[k + 1]
            offset_bound == t.row_bounds[offset + 1]
        IN  /\ b[1] - offset_bound[1] + ROW_START_INDEX <= line
            /\ line <= b[2] - offset_bound[2] + ROW_START_INDEX}
\* MouseEventKind::Down(MouseButton::Left) of Table::on_mouse_event: find
\* takes the first row that matches
Table_click(t, offset, line) ==
    IF t.items = <<>> THEN t
    ELSE IF offset >= Len(t.row_bounds) THEN [t EXCEPT !.status = "panic"]
    ELSE LET hits == ClickHits(t, offset, line)
         IN  IF hits = {} THEN t
             ELSE [t EXCEPT !.selected = CHOOSE k \in hits : \A x \in hits : k <= x]

\* the lines of the inner chunk the table widget draws row k on, rows drawn
\* from offset: below the header and its margin, each row takes its height
\* and the margin set_rows gave it
ScreenTop(t, offset, k) ==
    ROW_START_INDEX
        + Sum(SubSeq(t.heights, offset + 1, k)) + t.margin * (k - offset)
ScreenLines(t, offset, k) ==
    ScreenTop(t, offset, k)..(ScreenTop(t, offset, k) + t.heights[k + 1] - 1)

\* headers of the tables, the rows (cells of one length, up to one more cell
\* than the widest header) and the collections set_items is called with
LayoutHeaders == {<<3>>, <<3, 3>>}
LayoutRows == {[i \in 1..n |-> c] : n \in 1..MaxCells, c \in {2, MaxText}}
LayoutItems == UNION {[1..m -> LayoutRows] : m \in 0..MaxLayoutRows}

InitLayout ==
    InitInput({[name |-> "build", t |-> LayoutDefault(h), arg |-> <<>>] :
                  h \in LayoutHeaders})
LayoutStep(name, arg, t) ==
    /\ op.t.status = "ok"
    /\ Applied([name |-> name, t |-> t, arg |-> arg])
Lay_set_items == \E items \in LayoutItems :
    LayoutStep("set_items", <<>>, Table_set_items(op.t, items))
Lay_update_chunk == \E inner_width \in 0..MaxInner :
    LayoutStep("update_chunk", <<inner_width>>, Table_update_chunk(op.t, inner_width))
\* a left click on a line of the inner chunk, the table drawn from any row
Lay_click ==
    /\ op.t.items # <<>>
    /\ \E offset \in 0..(Len(op.t.items) - 1), line \in 0..(ROW_START_INDEX + 2 * MaxLayoutRows + 2) :
          LayoutStep("click", <<offset, line>>, Table_click(op.t, offset, line))
NextLayout ==
    \/ Lay_set_items
    \/ Lay_update_chunk
    \/ Lay_click
SpecLayout == InitLayout /\ [][NextLayout]_vars

(***************************************************************************)
(* Properties.                                                             *)
(***************************************************************************)

(* C1: every iteration of the render loop draws once, then takes exactly   *)
(* one message and applies it completely before the next draw: at most one *)
(* message is taken since the last draw, the loop waits for a message only *)
(* right after a draw, a message is in the course of being applied only    *)
(* between its receipt and the end of the match, and the loop is at the    *)
(* loop test or at the draw only with no message half applied.             *)
C1_OneDrawOneMessage ==
    /\ since_draw \in {0, 1}
    /\ pc = "recv" => (since_draw = 0 /\ ~applying /\ frame # NoFrame)
    /\ applying <=> pc = "match"
    /\ pc = "match" => (since_draw = 1 /\ pending.we # "None")
    /\ pc \in {"loop", "draw", "done"} => pending = NoPending

\* a draw that follows the complete application of a message which opened a
\* popup: the frame shows it
C1_Witness ==
    /\ pc = "recv" /\ since_draw = 0 /\ ~applying
    /\ open_popup_id # None
    /\ frame.popups = {open_popup_id}

(* C2: while a popup is open, a key or mouse event is routed to the popup  *)
(* alone: the active tab and its widgets do not receive it, and the focus  *)
(* of the tab and its table stay as they were.                             *)
C2_PopupInterceptsAllInput ==
    [][(/\ pc = "recv" /\ pc' = "match"
        /\ open_popup_id # None
        /\ disp'.msg \in {"Key", "Mouse"})
       => (/\ disp'.to # "tab"
           /\ table' = table
           /\ active_widget_index' = active_widget_index)]_vars

(* C3: at most one popup is open in every state: the open popup is none or *)
(* one registered id, open_popup(B) leaves exactly B open whatever was     *)
(* open before, and a render draws exactly the popup whose id is the open  *)
(* one (none when none is open).                                           *)
C3_OnePopup ==
    /\ open_popup_id \in PopupIds \cup {None}
    /\ op.name = "open_popup" => open_popup_id = op.arg
    /\ frame # NoFrame =>
          frame.popups = (IF open_popup_id = None THEN {} ELSE {open_popup_id})

\* open_popup(B) was called while another popup A was open, and B is open
C3_Witness ==
    /\ op.name = "open_popup"
    /\ op.prev \notin {None, op.arg}
    /\ open_popup_id = op.arg

(* C4: a left-button mouse-down outside the bounds of the open popup       *)
(* closes the popup, gives the result Nop (the loop continues), and is     *)
(* handed neither to the tab bar nor to a widget: tab, focus, hover and    *)
(* table are unchanged.                                                    *)
C4_ClickOutsideClosesPopup ==
    [][(/\ pc = "recv" /\ pc' = "match"
        /\ open_popup_id # None
        /\ disp'.ev = [type |-> "Mouse", kind |-> "DownLeft", in_popup |-> FALSE])
       => (/\ open_popup_id' = None
           /\ disp'.res = "Nop"
           /\ pending'.we = "Continue"
           /\ disp'.to = "none"
           /\ active_tab_index' = active_tab_index
           /\ mouse_over_tab_index' = mouse_over_tab_index
           /\ active_widget_index' = active_widget_index
           /\ table' = table)]_vars

\* the dispatch of a left click outside a popup that was open: only that
\* path answers Nop without handing the event to anyone
C4_Witness ==
    /\ pc = "match"
    /\ disp.ev = [type |-> "Mouse", kind |-> "DownLeft", in_popup |-> FALSE]
    /\ disp.to = "none" /\ disp.res = "Nop"
    /\ open_popup_id = None

(* C5: select_next(step) and select_prev(step), called on a table whose    *)
(* selection is valid (None iff it has no items, else below the length),   *)
(* leave it valid and do not abort; select_next clamps at len - 1,         *)
(* select_prev floors at 0, and on an empty table the selection is         *)
(* unchanged.                                                              *)
C5_SelectStepsKeepSelectionValid ==
    (/\ op.name \in {"select_next", "select_prev"}
     /\ (op.prev.selected = NoneIdx <=> op.prev.len = 0)
     /\ op.prev.selected < op.prev.len)
    => (/\ table.status = "ok"
        /\ Len(table.items) = op.prev.len
        /\ (table.selected = NoneIdx <=> Len(table.items) = 0)
        /\ table.selected < Len(table.items)
        /\ (op.prev.len = 0 => table.selected = op.prev.selected)
        /\ ((op.name = "select_next" /\ op.prev.len > 0) =>
               table.selected = Min(op.prev.selected + op.arg, op.prev.len - 1))
        /\ ((op.name = "select_prev" /\ op.prev.len > 0) =>
               table.selected = Max(op.prev.selected - op.arg, 0)))

(* C6: set_items, clear, select_first, select_last, a key event or a mouse *)
(* event on a table whose selection is valid leave the selection None      *)
(* exactly when the table has no items, and else an index below the        *)
(* number of items.                                                        *)
C6_SelectionNoneIffEmpty ==
    (/\ op.name \in {"set_items", "clear", "select_first", "select_last",
                      "on_key_event", "on_mouse_event"}
     /\ (op.prev.selected = NoneIdx <=> op.prev.len = 0)
     /\ op.prev.selected < op.prev.len)
    => (/\ (table.selected = NoneIdx <=> table.items = <<>>)
        /\ table.selected < Len(table.items))

(* C7: set_items with M items, 1 <= M < k + 1, on a table whose selection  *)
(* is k leaves the selection at M - 1, the new last index.                 *)
C7_ShrinkSelectsLast ==
    (/\ op.name = "set_items"
     /\ op.prev.selected # NoneIdx
     /\ 1 <= op.arg /\ op.arg < op.prev.selected + 1)
    => (/\ Len(table.items) = op.arg
        /\ table.selected = op.arg - 1)

\* the items shrank from a selection at index 1 to one item
C7_Witness ==
    /\ op.name = "set_items"
    /\ op.prev.selected = 1 /\ op.arg = 1
    /\ table.selected = 0

(* C8: set_items with a non-empty collection on an empty table without     *)
(* selection selects index 0, set_items with an empty collection leaves no *)
(* selection, and a table as TableBuilder::build returns it has index 0    *)
(* selected when it was given items and no selection otherwise.            *)
C8_SetItemsDefaultSelect ==
    /\ (/\ op.name = "set_items"
        /\ op.prev.len = 0 /\ op.prev.selected = NoneIdx
        /\ op.arg > 0) => table.selected = 0
    /\ (op.name = "set_items" /\ op.arg = 0) => table.selected = NoneIdx
    /\ op.name = "none" =>
          table.selected = (IF table.items = <<>> THEN NoneIdx ELSE 0)

\* an empty table without selection was given MaxItems items
C8_Witness ==
    /\ op.name = "set_items"
    /\ op.prev.len = 0 /\ op.prev.selected = NoneIdx
    /\ op.arg = MaxItems
    /\ table.selected = 0

(* C9: the active tab index is an index of a tab in every state, whatever  *)
(* sequence of activate_tab_by_index, activate_next_tab, activate_prev_tab *)
(* and events (digit keys, clicks in the tab bar) the window gets.         *)
C9_ActiveTabValid == active_tab_index \in 0..(NumTabs - 1)

\* activate_tab_by_index was called with an index past the last tab
C9_Witness ==
    /\ op.name = "activate_tab_by_index"
    /\ op.arg >= NumTabs
    /\ active_tab_index = NumTabs - 1

(* C10: when on_event answers Ignore, the event is looked up in the table  *)
(* of global actions by equality of the whole event value: the first entry *)
(* whose event equals it is invoked, once, and has had its effect; with no *)
(* such entry nothing is invoked and the loop continues.                   *)
C10_IgnoreMatchesGlobalActions ==
    (pc = "match" /\ disp.res = "Ignore") =>
        LET S == {i \in 1..Len(callbacks) : callbacks[i].ev = disp.ev}
        IN  IF S = {}
            THEN disp.matched = 0 /\ disp.calls = 0 /\ pending.we = "Continue"
            ELSE /\ disp.matched \in S
                 /\ \A j \in S : disp.matched <= j
                 /\ disp.calls = 1
                 /\ LET cb == callbacks[disp.matched].cb
                    IN  CASE cb = "open_ns" -> open_popup_id = "popup_ns"
                          [] cb = "open_single_ns" -> open_popup_id = "popup_single_ns"
                          [] cb = "open_ctx" -> open_popup_id = "popup_ctx"
                          [] cb = "open_help" -> open_popup_id = "popup_help"
                          [] cb = "fn_close" ->
                                 /\ open_popup_id = None
                                 /\ pending.we \in {"Continue", "CloseWindow"}

\* Shift-N, ignored by the focused widget, matched the first entry, which
\* opened the namespace popup
C10_Witness ==
    /\ pc = "match" /\ disp.res = "Ignore"
    /\ disp.ev = Key("N", "SHIFT")
    /\ disp.matched = 1 /\ disp.calls = 1
    /\ open_popup_id = "popup_ns"

(* C11: after the match on CloseWindow has stored true in the shutdown     *)
(* flag, the render loop is only ever at its loop test or past it: it      *)
(* never draws, waits for, takes or applies another message, whatever is   *)
(* still waiting in the channel.                                           *)
C11_CloseStopsLoop ==
    is_terminated =>
        /\ pc \in {"loop", "done"}
        /\ pending = NoPending
        /\ ~applying
        /\ since_draw = 1

\* the loop has left after a close while a message was still in the channel
C11_Witness ==
    /\ is_terminated /\ pc = "done"
    /\ chan > 0
    /\ since_draw = 1

(* C12: once the shutdown flag is set, by the close action or by the panic *)
(* hook of another thread, the render loop leaves its loop in the end,     *)
(* also when it was waiting in rx.recv() at that moment: either a message  *)
(* arrives and the next loop test ends the loop (pc = "done"), or every    *)
(* Sender is dropped and the receive itself ends the loop by its panic     *)
(* (pc = "panic").                                                         *)
C12_FlagStopsLoop == is_terminated ~> (pc \in {"done", "panic"})

\* the flag was set by the panic of a worker while the render loop waits in
\* recv on an empty channel
C12_Witness ==
    /\ is_terminated /\ pc = "recv" /\ chan = 0
    /\ \E w \in Workers : workers[w].pc = "panicked" /\ workers[w].at = "fetch"

(* C13: when the receive of the render loop finds the channel empty and    *)
(* every Sender dropped, the loop leaves normally: the render thread never *)
(* ends by the panic of its receive.                                       *)
C13_ClosedChannelIsShutdown == pc # "panic"

(* C14: a worker whose send fails because the Receiver is dropped leaves   *)
(* its loop silently: no worker ever ends by a panic in its send.          *)
C14_SendFailureExitsSilently ==
    \A w \in Workers : ~(workers[w].pc = "panicked" /\ workers[w].at = "send")

(* C15: every worker reads the shutdown flag at the top of each iteration, *)
(* so no worker begins another iteration (goes round its loop) after the   *)
(* flag has been set.                                                      *)
C15_NoIterationAfterFlag == \A w \in Workers : ~workers[w].late

\* worker w is suspended: in the await of its timer or of the API call, or
\* in a send on a full channel
Suspended(w) ==
    \/ workers[w].pc \in {"tick", "fetch"}
    \/ workers[w].pc = "send" /\ rx_alive /\ chan = ChanBound

(* C16: no worker is suspended (awaiting the timer or an API call, or      *)
(* blocked in a send on the full channel) while it holds the guard of the  *)
(* namespace lock.                                                         *)
C16_NoSuspensionUnderLock ==
    \A w \in Workers : workers[w].guard => ~Suspended(w)

(* C17: the render thread waits only in its receive: it is never blocked   *)
(* in the send of a request to the Kubernetes worker while it handles a    *)
(* user event.                                                             *)
C17_RenderBlocksOnlyInRecv == pc # "send"

(* C18: a worker that has panicked has the shutdown flag set, and its      *)
(* panic is not ignored at the join: the join re-raises it.                *)
C18_WorkerPanicShutsDown ==
    \A w \in Workers :
        workers[w].pc = "panicked" =>
            (is_terminated /\ workers[w].join # "ignored")

\* a step of a thread other than the render loop: a worker moves or is
\* joined, an input thread leaves, a message is put on the channel, a
\* request is taken from the request channel
WorkerSide ==
    \/ workers' # workers
    \/ producers' # producers
    \/ chan' > chan
    \/ req' < req

(* C19: the window and its widgets are read and written by the thread of   *)
(* the render loop only: every step that changes them is a step of that    *)
(* loop (it moves the loop's position), and a step of a worker or of an    *)
(* input thread leaves the window, the screen and the loop's own state as  *)
(* they are; it acts on the channels and on the flag only.                 *)
C19_WindowOwnedByRenderThread ==
    [][/\ (wvars' # wvars) => (pc' # pc)
       /\ WorkerSide => (UNCHANGED wvars /\ UNCHANGED rvars
                         /\ UNCHANGED blocked_cb)]_vars

\* the render loop has put the rows of a Kube message into the pod table and
\* opened a popup while a worker is about to send again
C19_Witness ==
    /\ table.items # <<>>
    /\ open_popup_id # None
    /\ \E w \in Workers : workers[w].pc = "send"

\* the index in hist of the last message of a domain, 0 when there is none
LastIdx(kind) ==
    LET S == {i \in 1..Len(hist) : hist[i].kind = kind}
    IN  IF S = {} THEN 0 ELSE CHOOSE i \in S : \A j \in S : j <= i
\* the lines of all the Log messages of h, in their order
RECURSIVE LogLines(_)
LogLines(h) ==
    IF h = <<>> THEN <<>>
    ELSE LET k == h[Len(h)]
         IN  LogLines(SubSeq(h, 1, Len(h) - 1))
                 \o (IF k.kind = "Log" THEN Shown(k) ELSE <<>>)
\* the pod table shows the rows of the last Pod message (one ERROR row for an
\* Err), the event widget the lines of the last Event message
LastWriteWinsPodEvent ==
    /\ LastIdx("Pod") # 0 =>
           LET k == hist[LastIdx("Pod")]
           IN  table.items = ItemsOfLen(IF k.ok THEN k.n ELSE 1)
    /\ LastIdx("Event") # 0 => contents.event = Shown(hist[LastIdx("Event")])

C28_SelectFirstLastIdempotent ==
    /\ select_first(select_first(table)) = select_first(table)
    /\ select_last(select_last(table)) = select_last(table)

\* select_last has moved the selection of a table of several rows to its
\* last row
C28_Witness ==
    /\ op.name = "select_last"
    /\ Len(table.items) > 1
    /\ table.selected = Len(table.items) - 1
    /\ op.prev.selected # table.selected

(* C29: set_items leaves the selection where it was whenever the previous  *)
(* selection is still an index of the new items, also when the new items   *)
(* are fewer than the old ones.                                            *)
C29_SetItemsKeepsValidSelection ==
    (/\ op.name = "set_items"
     /\ op.prev.selected # NoneIdx
     /\ op.prev.selected < Len(table.items))
        => table.selected = op.prev.selected

\* C21: the current context and the current namespaces change only in the
\* step in which the render loop applies a Kubernetes response (the
\* UpdateContents arm, for NamespaceResponse::Set or RestoreContext): no
\* user input, tick, callback, worker or producer step modifies them
C21_SharedChangesOnlyOnKubeResponse ==
    [][shared' # shared =>
          /\ pc = "match"
          /\ pending.we = "UpdateContents"
          /\ pending.k.kind \in {"NamespaceSet", "RestoreContext"}]_vars
\* a response has been applied and the values are no longer the initial ones,
\* while a worker has run and a request of a callback went out
C21_Witness ==
    /\ shared.namespace = <<"a">>
    /\ shared.context = "ctx"
    /\ req > 0
    /\ \E w \in Workers : workers[w].pc # WorkerStart(w).pc

\* the last message the loop of SpecApply has taken
LastMsg == hist[Len(hist)]
\* the loop has taken Tick, then the key n, then a Kube message of one of
\* the kinds with an Ok payload
Scenario(kinds) ==
    /\ op.name = "message"
    /\ Len(hist) = 3
    /\ hist[1] = [type |-> "Tick"]
    /\ hist[2] = [type |-> "User", ev |-> Key("n", "NONE")]
    /\ hist[3].type = "Kube"
    /\ hist[3].k.kind \in kinds
    /\ hist[3].k.ok

Owned(k) == \A i \in DOMAIN Lookups(k) : find_widget(Lookups(k)[i])
\* the loop has just taken a Kube message with an Err payload for a widget
\* of the window
ErrorApplied ==
    /\ op.name = "message"
    /\ Len(hist) > 0
    /\ LastMsg.type = "Kube"
    /\ ~LastMsg.k.ok
    /\ Owned(LastMsg.k)
\* the key j reached the pod table right after an Err payload was put in it
KeyAfterError ==
    /\ op.name = "message"
    /\ Len(hist) > 1
    /\ LastMsg = [type |-> "User", ev |-> Key("j", "NONE")]
    /\ hist[Len(hist) - 1] = [type |-> "Kube", k |-> KubePod(FALSE, 1)]
    /\ op.prev.w.open_popup_id = None

C24_FailedLookupIsFatal ==
    (/\ op.name = "message"
     /\ \E i \in DOMAIN hist :
           /\ hist[i].type = "Kube"
           /\ \E j \in DOMAIN Lookups(hist[i].k) :
                 Lookups(hist[i].k)[j] \notin PopupIds \cup TabWidgetIds)
        => /\ pc = "panic"
           /\ LastMsg.type = "Kube"
           /\ LastMsg.k.kind = "DirectedYaml"
           /\ Win = op.prev.w
           /\ contents = op.prev.c
           /\ shared = op.prev.s
C24_Witness ==
    /\ pc = "panic"
    /\ Len(hist) = 3
    /\ LastMsg.type = "Kube"
    /\ LastMsg.k.kind = "DirectedYaml"
    /\ contents.popup_ns # <<>>
    /\ open_popup_id # None

\* the widths the columns have before the render width is looked at
Natural == NaturalWidths(op.header, op.items)
\* C25: when the natural widths of the columns plus the spacing between them
\* exceed the available width, set_widths makes the first column narrower,
\* leaves every other column its natural width, and the widths plus the
\* spacing are the available width
C25_OverflowShrinksFirstColumn ==
    (/\ op.name = "set_widths"
     /\ op.items # <<>>
     /\ TotalWidth(Natural) > op.row_width)
        => /\ op.digits[1] < Natural[1]
           /\ \A i \in 2..Len(Natural) : op.digits[i] = Natural[i]
           /\ TotalWidth(op.digits) = op.row_width

RECURSIVE Concat(_)
\* the lines of a list put one after the other
Concat(ls) == IF ls = <<>> THEN <<>> ELSE Head(ls) \o Concat(Tail(ls))
\* the line of n double-width graphemes
DoubleLine(n) == [i \in 1..n |-> [symbol |-> i, width |-> 2]]

\* C26: every line the wrap pass has emitted is at most wrap_width wide, and
\* the grapheme that follows a cut in the original line would have made the
\* line wider than wrap_width; four double-width graphemes at width 5 give
\* two lines of two
C26_WrappedLinesFit ==
    (op.name = "wrap" /\ op.wrap_width # NoneIdx) =>
        /\ \A k \in DOMAIN op.out :
              /\ LineWidth(op.out[k]) <= op.wrap_width
              /\ LET taken == Len(Concat(SubSeq(op.out, 1, k)))
                 IN  taken < Len(op.line) =>
                        LineWidth(op.out[k]) + op.line[taken + 1].width
                            > op.wrap_width
        /\ (op.done /\ op.line = DoubleLine(4) /\ op.wrap_width = 5) =>
              op.out = <<SubSeq(op.line, 1, 2), SubSeq(op.line, 3, 4)>>
C26_Witness ==
    /\ op.name = "wrap"
    /\ op.done
    /\ op.line = DoubleLine(4)
    /\ op.wrap_width = 5
    /\ Len(op.out) = 2

ColumnOf(line, scroll, j) == LineWidth(SubSeq(line, 1, j - 1)) - scroll
\* the k-th grapheme the iterator returned stands for this grapheme of the
\* line
SourceOf(k) == start(op.line, op.scroll)[1] + k

\* C30: a double-width grapheme that the scroll offset cuts is returned as
\* the placeholder '<', one that the right edge of the render area cuts as
\* the placeholder '>', every other returned grapheme is the grapheme of the
\* line itself, and the display width of what is returned for a line is at
\* most the render width
C30_PaddingAtClippedEdges ==
    op.name = "line" =>
        /\ \A k \in DOMAIN op.out :
              LET j == SourceOf(k)
                  c == ColumnOf(op.line, op.scroll, j)
              IN  op.out[k] =
                     IF op.line[j].width = 2 /\ c = 0 - 1
                     THEN RENDER_LEFT_PADDING
                     ELSE IF op.line[j].width = 2 /\ c = op.render_width - 1
                     THEN RENDER_RIGHT_PADDING
                     ELSE op.line[j]
        /\ LineWidth(op.out) <= op.render_width

\* on_event has just handled the key Tab or BackTab
TabKeyHandled == op.name = "on_event" /\ op.tabkey.key # None

\* C31: after the key Tab or BackTab the focus of the active tab has moved
\* (to the next or the previous widget, cyclically) exactly when the focused
\* widget was handed the key and answered Ignore; with any other answer, or
\* with a popup taking the key, no focus has moved; and the focus of every
\* other tab is what it was
C31_TabMovesFocusOnlyOnIgnore ==
    TabKeyHandled =>
        LET k == op.tabkey
            n == TabWidgetCount(k.tab)
        IN  /\ active_tab_index = k.tab
            /\ \A t \in Tabs \ {k.tab} : active_widget_index[t] = k.focus[t]
            /\ IF k.widget = "Ignore"
               THEN active_widget_index[k.tab] =
                       IF k.key = "Tab" THEN (k.focus[k.tab] + 1) % n
                       ELSE (k.focus[k.tab] + n - 1) % n
               ELSE active_widget_index = k.focus
\* Tab moved the focus of the Pod tab from the table to its second widget
C31_Witness ==
    /\ TabKeyHandled
    /\ op.tabkey.key = "Tab"
    /\ op.tabkey.widget = "Ignore"
    /\ op.tabkey.focus[0] = 0
    /\ active_widget_index[0] = 1

\* a request for a tab that does not exist: activate_tab_by_index takes
\* 0-based indices, select_tab 1-based ones
TabRequestOutOfRange ==
    \/ op.name = "activate_tab_by_index" /\ op.arg >= NumTabs
    \/ op.name = "select_tab" /\ (op.arg = 0 \/ op.arg > NumTabs)

\* C32: a request for a tab by an index that is out of range (0 given to the
\* 1-based select_tab included) leaves the active tab as it was and does
\* not abort
C32_OutOfRangeTabRequestIsNoOp ==
    TabRequestOutOfRange =>
        /\ pc # "panic"
        /\ active_tab_index = op.tab
\* the part that holds: the 0-based activate_tab_by_index, and select_tab
\* for indices above the number of tabs, leave the active tab as it was
C32_ChecksHoldAboveRange ==
    (TabRequestOutOfRange /\ op.arg # 0) =>
        /\ pc # "panic"
        /\ active_tab_index = op.tab

\* the widths the columns take when no row is wider than the header allows
OthersFit(t) == Spacing(t.digits) + Sum(Tail(t.digits)) <= t.row_width

\* C33: after update_chunk has taken a new size, the column widths of a
\* table with rows fit the new row width (the widths plus the spacing
\* between the columns do not exceed it) whenever the columns other than
\* the first fit, without a further set_items
C33_WidthsFitAfterUpdateChunk ==
    (/\ op.name = "update_chunk"
     /\ op.t.items # <<>>
     /\ OthersFit(op.t))
        => TotalWidth(op.t.digits) <= op.t.row_width

\* C35: set_items completes without aborting for every collection of rows,
\* rows with more cells than the header has columns included
C35_SetItemsNeverIndexesOutside ==
    op.name = "set_items" => op.t.status = "ok"

\* C39: a left click on a line that a row drawn on screen occupies selects
\* that row, and the row bounds, taken from the first row drawn, are the
\* lines the rows occupy (so they are pairwise disjoint); stated for tables
\* whose columns all have a positive width
C39_ClickSelectsRowOnLine ==
    (/\ op.name = "click"
     /\ op.t.status = "ok"
     /\ \A i \in DOMAIN op.t.digits : op.t.digits[i] > 0) =>
        LET offset == op.arg[1]
            line == op.arg[2]
            t == op.t
        IN  /\ \A k \in offset..(Len(t.items) - 1) :
                  line \in ScreenLines(t, offset, k) => t.selected = k
            /\ \A k \in 0..(Len(t.items) - 1) :
                  ScreenLines(t, 0, k) =
                     (t.row_bounds[k + 1][1] + ROW_START_INDEX)
                         ..(t.row_bounds[k + 1][2] + ROW_START_INDEX)

\* C34: get_item, the Enter key and a left click (on a table drawn from a
\* row it has bounds for) do not abort on reading items[selected], after
\* any sequence of set_items, clear and select operations
C34_SelectedItemReadNeverAborts ==
    (\/ op.name \in {"get_item", "on_key_event"}
     \/ op.name = "on_mouse_event" /\ table.offset < table.row_bounds)
        => table.status = "ok"

\* C36: every line the wrap iterator has returned took at least one grapheme
\* from the remainder, so an iterator returns at most as many lines as the
\* line has graphemes, for every wrap width
C36_WrapNextConsumes ==
    op.name = "wrap" =>
        /\ \A k \in DOMAIN op.out : op.out[k] # <<>>
        /\ Len(op.out) <= Len(op.line)

\* the last message the loop applied was a Kube message
KubeApplied == op.name = "message" /\ hist # <<>> /\ LastMsg.type = "Kube"
\* C37 as stated: after a Kube message has been applied, the popup that is
\* open (or that none is) is what it was before the message
C37_KubeMessageKeepsPopup ==
    KubeApplied => open_popup_id = op.prev.w.open_popup_id
\* C37: a Kube message leaves the open popup as it was, except a
\* YamlResponse::Resource with an Ok payload, which opens popup_yaml_return
\* for an empty list and popup_yaml_name otherwise, in place of any popup
\* that was open; no Kube message closes a popup
C37_OnlyYamlResourceOpensPopup ==
    KubeApplied =>
        LET k == LastMsg.k
        IN  /\ IF k.kind = "YamlResource" /\ k.ok
               THEN open_popup_id = IF k.n = 0 THEN "popup_yaml_return"
                                    ELSE "popup_yaml_name"
               ELSE open_popup_id = op.prev.w.open_popup_id
            /\ (op.prev.w.open_popup_id # None => open_popup_id # None)
\* a resource list arrived while the namespace popup was open and took its
\* place
C37_Witness ==
    /\ KubeApplied
    /\ LastMsg.k = KubeYamlResource(TRUE, 1)
    /\ op.prev.w.open_popup_id = "popup_single_ns"
    /\ open_popup_id = "popup_yaml_name"

\* the last message was a key for which the loop ran the global close action
CloseActionRan ==
    /\ op.name = "message"
    /\ op.matched # 0
    /\ callbacks[op.matched].cb = "fn_close"

\* C38: the global close action ('q', Esc) run with a popup open closes the
\* popup and nothing else, the flag stays clear and the loop goes on; run
\* with no popup open it sets the flag and leaves the window as it is; and
\* no message applied with a popup open sets the flag
C38_CloseIsTwoStage ==
    /\ CloseActionRan =>
          /\ LastMsg.type = "User"
          /\ LastMsg.ev.code \in {"q", "Esc"}
          /\ pc = "loop"
          /\ [Win EXCEPT !.open_popup_id = op.prev.w.open_popup_id]
                = clear_mouse_over(op.prev.w)
          /\ open_popup_id = None
          /\ is_terminated = (op.prev.w.open_popup_id = None)
    /\ (op.name = "message" /\ pc = "loop" /\ is_terminated)
          => (op.prev.w.open_popup_id = None /\ CloseActionRan)
\* 'q' with the namespace popup open closed the popup and the loop is running
C38_Witness ==
    /\ CloseActionRan
    /\ LastMsg.ev.code = "q"
    /\ op.prev.w.open_popup_id = "popup_single_ns"
    /\ open_popup_id = None
    /\ ~is_terminated
    /\ pc = "loop"

\* the last message the loop applied was a Tick or an Error
TickOrErrorApplied ==
    op.name = "message" /\ hist # <<>> /\ LastMsg.type \in {"Tick", "Error"}
\* C40: a Tick or an Error message leaves the window (active tab, focus,
\* open popup, table), the contents of the widgets and the namespace and
\* context as they were, the flag clear and the loop at its top
C40_TickAndErrorChangeNothing ==
    TickOrErrorApplied =>
        /\ Win = op.prev.w
        /\ contents = op.prev.c
        /\ shared = op.prev.s
        /\ is_terminated = op.prev.flag
        /\ ~is_terminated
        /\ pc = "loop"
        /\ Running
\* an Error arrived with the namespace popup open and populated
C40_Witness ==
    /\ TickOrErrorApplied
    /\ LastMsg.type = "Error"
    /\ open_popup_id = "popup_single_ns"
    /\ contents.popup_single_ns # <<>>
    /\ Len(hist) = 3
====
